---- MODULE Spec2Model ----
(***************************************************************************)
(* Model of the result-aggregation scripts of LLaVA-Med:                   *)
(*   eval_results/summary/analyze_accuracy.py  (analyze_contrast_accuracy) *)
(*   analyze_contrast_accuracy.py, analyze_crop_accuracy.py,               *)
(*   analyze_zoom_accuracy.py                  (same loop, fewer outputs)  *)
(*   compare_evaluations.py, zoom_analysis.py, detailed_*_comparison.py    *)
(*                                             (partition-only loader)     *)
(* and of the main functions of the two batch analyzers, of the answer     *)
(* extractor, the similarity evaluation and evaluate_accuracy of           *)
(*   llava/eval/eval_pattern_matching.py                                   *)
(* and of the difference report of detailed_crop_comparison.py.            *)
(*                                                                         *)
(* Representation.                                                         *)
(*  - A string is a sequence of one-character strings, so that `in` and    *)
(*    str.split are computed by scanning, as Python does.                  *)
(*  - A perturbation level is an integer number of tenths (10 is 1.0,      *)
(*    5 is 0.5).                                                           *)
(*  - An optional JSON value is a set with at most one element: {} is a    *)
(*    missing key or null (dict.get gives None for both), {v} is v.        *)
(*  - A quotient a / b is the pair [num |-> a, den |-> b]; the float 0.0   *)
(*    written by the guards is [num |-> 0, den |-> 1].                     *)
(***************************************************************************)
EXTENDS Integers, Sequences, FiniteSets, TLC

(***************************************************************************)
(* Bounds                                                                  *)
(***************************************************************************)
MaxIdLen == 6         \* strip run: longest identifier tried
MaxRecords == 3       \* analyzer run: records read over all files
MaxHeader == 2        \* analyzer run: cap on the accumulated 'correct' and 'total' fields
MaxLoadRecords == 2   \* loader run: records held by one file
MaxTokens == 4        \* extractor run: pieces a response is put together from
MaxPreds == 2         \* similarity run: predictions in pred_dict

(***************************************************************************)
(* Strings                                                                 *)
(***************************************************************************)
Chars == {"a", "_", "c"}

RECURSIVE StringsUpTo(_)
StringsUpTo(n) ==
  IF n = 0 THEN {<<>>}
  ELSE LET shorter == StringsUpTo(n - 1)
       IN  shorter \cup {Append(s, ch) : s \in {x \in shorter : Len(x) = n - 1}, ch \in Chars}

\* The perturbation types: one-letter stand-ins for 'contrast' / 'crop' / 'zoom'.
AttributeTypes == {<<"c">>, <<"a">>}

\* f'_{attribute_type}_'
SplitPattern(attribute_type) == <<"_">> \o attribute_type \o <<"_">>

\* s[i : i + len(p)] == p   (1-based i)
OccursAt(s, p, i) ==
  /\ i >= 1
  /\ i + Len(p) - 1 <= Len(s)
  /\ SubSeq(s, i, i + Len(p) - 1) = p

\* str.find scanning from the left: least index of an occurrence, 0 when none.
RECURSIVE FindFrom(_, _, _)
FindFrom(s, p, i) ==
  IF i + Len(p) - 1 > Len(s) THEN 0
  ELSE IF OccursAt(s, p, i) THEN i
  ELSE FindFrom(s, p, i + 1)

\* str.rfind scanning from the right: greatest index of an occurrence, 0 when none.
RECURSIVE FindBack(_, _, _)
FindBack(s, p, i) ==
  IF i < 1 THEN 0
  ELSE IF OccursAt(s, p, i) THEN i
  ELSE FindBack(s, p, i - 1)

\* p in s
Contains(s, p) == FindFrom(s, p, 1) # 0

\* s.rsplit(p, 1)[0]: the part before the LAST occurrence.
SplitLast(s, p) ==
  LET i == FindBack(s, p, Len(s) - Len(p) + 1)
  IN  IF i = 0 THEN s ELSE SubSeq(s, 1, i - 1)

\* s.split(p)[0]: the part before the first occurrence, s itself when none.
SplitFirst(s, p) ==
  LET i == FindFrom(s, p, 1)
  IN  IF i = 0 THEN s ELSE SubSeq(s, 1, i - 1)

\* The base id taken before the LAST occurrence (rsplit in place of split).
BaseIdLast(original_question_id, attribute_type) ==
  SplitLast(original_question_id, SplitPattern(attribute_type))

\* base_id = oqid.split(pat)[0] if pat in oqid else oqid
BaseId(original_question_id, attribute_type) ==
  LET split_pattern == SplitPattern(attribute_type)
  IN  IF Contains(original_question_id, split_pattern)
      THEN SplitFirst(original_question_id, split_pattern)
      ELSE original_question_id

(***************************************************************************)
(* Optional values and quotients                                           *)
(***************************************************************************)
None == {}
Some(v) == {v}
Get(opt, default) == IF opt = {} THEN default ELSE CHOOSE v \in opt : TRUE

Frac(a, b) == [num |-> a, den |-> b]
Zero == Frac(0, 1)
\* a / b if b > 0 else 0.0
GuardedDiv(a, b) == IF b > 0 THEN Frac(a, b) ELSE Zero
RatEq(x, y) == x.num * y.den = y.num * x.den

VARIABLES
  pc,                    \* which script is running and where it is
  attribute_type,        \* perturbation type under analysis
  attribute_stats,       \* level -> [correct, total]
  total_correct_all,
  total_count_all,
  all_question_results,  \* base id -> (level -> correctness)
  loaded,                \* history: bag of the records that went through the inner loop
  summary,               \* the returned summary ({} before the return)
  orig_id,               \* strip run: the identifier being stripped
  suffix,                \* strip run: text after the delimiter of the perturbed id
  base_key,              \* strip run: BaseId of orig_id
  pert_key,              \* strip run: BaseId of orig_id + delimiter + suffix
  restrip_key,           \* strip run: BaseId applied to base_key
  split_key,             \* strip run: unconditional split(delimiter)[0] of orig_id
  resplit_key,           \* strip run: the unconditional split applied to split_key
  results,               \* loader run: the parsed JSON object
  all_results,           \* loader run: analyzer's flat list
  file1_results,         \* loader run: comparison scripts' flat list
  unit,                  \* batch run: position of main's loop in its list of units
  main_all_results,      \* batch run: main's all_results, unit key -> analysis
  reported,              \* batch run: unit keys handed to print_analysis_report
  attempted,             \* batch run: history of the analyzer calls made by main
  results_files,         \* batch run: the files of the latest analyzer call
  analysis,              \* batch run: outcome of the latest analyzer call
  weighted,              \* batch run: tables of calculate_weighted_averages
  response_text,         \* extractor run: the model's response
  options,               \* extractor run: the options argument
  answer,                \* extractor run: the returned label ({} is None)
  data,                  \* similarity run: the element of pred_dict in the loop ({} before)
  marks,                 \* similarity run: the is_correct marks written into pred_dict, in order
  succ,                  \* similarity run: MedicalEval's success counter
  accuracy,              \* similarity run: the returned quotient
  sorted_attribute_accuracy, \* script run: the key order of the summary's per-level table
  crop_analysis,         \* script run: what analyze_crop_accuracy returned
  zoom_analysis,         \* script run: what analyze_zoom_accuracy returned
  predictions_file,      \* evaluation run: the lines of the predictions file not yet read
  questions,             \* evaluation run: the questions argument
  predictions,           \* evaluation run: unique key -> prediction
  pred_dict,             \* evaluation run: the eval_data list handed to MedicalEval
  evaluation,            \* evaluation run: the returned result ({} before the return)
  file2_results,         \* comparison run: the no-crop file's flat list
  questions_with_differences, \* comparison run: the base ids to report
  sample_result          \* comparison run: base id -> where the report took its prompt from

vars == <<pc, attribute_type, attribute_stats, total_correct_all,
          total_count_all, all_question_results, loaded, summary,
          orig_id, suffix, base_key, pert_key, restrip_key, split_key, resplit_key,
          results, all_results, file1_results,
          unit, main_all_results, reported, attempted, results_files, analysis, weighted,
          response_text, options, answer,
          data, marks, succ, accuracy,
          sorted_attribute_accuracy, crop_analysis, zoom_analysis,
          predictions_file, questions, predictions, pred_dict, evaluation,
          file2_results, questions_with_differences, sample_result>>

analyzerVars == <<attribute_stats, total_correct_all, total_count_all,
                  all_question_results, loaded, summary>>
stripVars == <<orig_id, suffix, base_key, pert_key, restrip_key, split_key, resplit_key>>
loaderVars == <<results, all_results, file1_results>>
batchVars == <<unit, main_all_results, reported, attempted, results_files, analysis, weighted>>
extractorVars == <<response_text, options, answer>>
similarityVars == <<data, marks, succ, accuracy>>
evaluationVars == <<batchVars, extractorVars, similarityVars>>
scriptVars == <<sorted_attribute_accuracy, crop_analysis, zoom_analysis>>
accuracyVars == <<predictions_file, questions, predictions, pred_dict, evaluation>>
comparisonVars == <<file2_results, questions_with_differences, sample_result>>
otherVars == <<scriptVars, accuracyVars, comparisonVars>>

(***************************************************************************)
(* Records and result files                                                *)
(***************************************************************************)
\* base_value = 1.0, in tenths
base_value == 10

\* Perturbation levels a record may carry, in tenths.
Levels == {5, 10}

\* original_question_id values of the analyzer run: 'a', its perturbed form
\* 'a_c_a' (delimiter '_c_') and a second base question 'c'.
IdPool == {<<"a">>, <<"a", "_", "c", "_", "a">>, <<"c">>}

\* One entry of detailed_results. attribute is result.get(attribute_type).
RecordPool ==
  [original_question_id : IdPool,
   attribute : {None} \cup {Some(l) : l \in Levels},
   correct : BOOLEAN]

\* The top-level 'correct' / 'total' fields of a result file, each possibly missing.
HeaderPool ==
  [correct : {None} \cup {Some(n) : n \in 0..MaxHeader},
   total : {None} \cup {Some(n) : n \in 0..MaxHeader}]

\* The attribute key without the default: a null attribute keeps a key of its own.
AttributeKeyRaw(result) ==
  IF result.attribute = None THEN 0 ELSE Get(result.attribute, 0)

\* attribute_key: a null attribute is the base value
AttributeKey(result) ==
  IF result.attribute = None THEN base_value ELSE Get(result.attribute, base_value)

\* The row update with 'correct' incremented whatever is_correct is.
StatsAfterAlwaysCorrect(stats, key, is_correct) ==
  LET old == IF key \in DOMAIN stats THEN stats[key] ELSE [correct |-> 0, total |-> 0]
  IN  [k \in DOMAIN stats \cup {key} |->
         IF k = key
         THEN [correct |-> old.correct + 1, total |-> old.total + 1]
         ELSE stats[k]]

\* attribute_stats[key]['total'] += 1; if is_correct: attribute_stats[key]['correct'] += 1
\* (attribute_stats is a defaultdict of {'correct': 0, 'total': 0})
StatsAfter(stats, key, is_correct) ==
  LET old == IF key \in DOMAIN stats THEN stats[key] ELSE [correct |-> 0, total |-> 0]
  IN  [k \in DOMAIN stats \cup {key} |->
         IF k = key
         THEN [correct |-> old.correct + (IF is_correct THEN 1 ELSE 0),
               total |-> old.total + 1]
         ELSE stats[k]]

\* all_question_results[base_id][attribute_key] = is_correct  (defaultdict(dict))
QuestionResultsAfter(aqr, base_id, key, is_correct) ==
  LET old == IF base_id \in DOMAIN aqr THEN aqr[base_id] ELSE [l \in {} |-> FALSE]
      new == [l \in DOMAIN old \cup {key} |-> IF l = key THEN is_correct ELSE old[l]]
  IN  [b \in DOMAIN aqr \cup {base_id} |-> IF b = base_id THEN new ELSE aqr[b]]

EmptyDict == [k \in {} |-> 0]

\* The bag of records, as a function record -> number of copies.
BagAdd(bag, r) ==
  [x \in DOMAIN bag \cup {r} |->
     IF x = r THEN (IF r \in DOMAIN bag THEN bag[r] + 1 ELSE 1) ELSE bag[x]]

RECURSIVE SumOver(_, _)
SumOver(f, S) ==
  IF S = {} THEN 0
  ELSE LET x == CHOOSE y \in S : TRUE
       IN  f[x] + SumOver(f, S \ {x})

BagSize(bag) == SumOver(bag, DOMAIN bag)

(***************************************************************************)
(* The summary (analyze_accuracy.py lines 81-152)                          *)
(***************************************************************************)
\* overall_accuracy
OverallAccuracy(correct_all, count_all) == GuardedDiv(correct_all, count_all)

\* attribute_accuracy: one row per level whose total is positive
AttributeAccuracy(stats) ==
  [l \in {k \in DOMAIN stats : stats[k].total > 0} |->
     [accuracy |-> Frac(stats[l].correct, stats[l].total),
      correct |-> stats[l].correct,
      total |-> stats[l].total]]

\* the base ids compared for one level: both base_value and the level recorded
Compared(aqr, level) ==
  {b \in DOMAIN aqr : base_value \in DOMAIN aqr[b] /\ level \in DOMAIN aqr[b]}

\* The compared base ids correct at both levels (agreement on failure not counted).
AgreedBothCorrect(aqr, level) ==
  {b \in Compared(aqr, level) : aqr[b][base_value] /\ aqr[b][level]}

\* the compared base ids whose two correctness values are equal
Agreed(aqr, level) ==
  {b \in Compared(aqr, level) : aqr[b][base_value] = aqr[b][level]}

\* The pairwise entries built only for the levels that share a base question
\* with the base value.
BaseVsOthersCompared(stats, aqr) ==
  [level \in {l \in DOMAIN stats \ {base_value} : Compared(aqr, l) # {}} |->
     LET compared == Compared(aqr, level)
         agreed == Agreed(aqr, level)
     IN  [agreement_rate |-> GuardedDiv(Cardinality(agreed), Cardinality(compared)),
          questions_agreed |-> Cardinality(agreed),
          questions_compared |-> Cardinality(compared)]]

\* base_vs_others_agreement, keyed by the level L of "1.0 vs L"
BaseVsOthers(stats, aqr) ==
  [level \in DOMAIN stats \ {base_value} |->
     LET compared == Compared(aqr, level)
         agreed == Agreed(aqr, level)
     IN  [agreement_rate |-> GuardedDiv(Cardinality(agreed), Cardinality(compared)),
          questions_agreed |-> Cardinality(agreed),
          questions_compared |-> Cardinality(compared)]]

\* Every base id enters the unanimous statistics (the len(...) > 1 test dropped).
MultiLevelAll(aqr) == DOMAIN aqr

\* the base ids that enter the unanimous statistics

MultiLevel(aqr) == {b \in DOMAIN aqr : Cardinality(DOMAIN aqr[b]) > 1}

\* Unanimity counted only when every level is correct.
FullAgreementAllCorrect(aqr) ==
  {b \in MultiLevel(aqr) : \A l \in DOMAIN aqr[b] : aqr[b][l]}

\* len(set(correctness_values)) == 1
FullAgreement(aqr) ==
  {b \in MultiLevel(aqr) : Cardinality({aqr[b][l] : l \in DOMAIN aqr[b]}) = 1}

Summary(stats, correct_all, count_all, aqr, atype) ==
  [total_accuracy |-> OverallAccuracy(correct_all, count_all),
   total_correct |-> correct_all,
   total_count |-> count_all,
   attribute_levels_count |-> Cardinality(DOMAIN AttributeAccuracy(stats)),
   attribute_accuracy |-> AttributeAccuracy(stats),
   attribute_type |-> atype,
   agreement_analysis |->
     [overall_agreement_rate |->
        GuardedDiv(Cardinality(FullAgreement(aqr)), Cardinality(MultiLevel(aqr))),
      questions_with_full_agreement |-> Cardinality(FullAgreement(aqr)),
      total_questions_compared |-> Cardinality(MultiLevel(aqr)),
      base_vs_others_agreement |-> BaseVsOthers(stats, aqr)]]

(***************************************************************************)
(* The analyzer run: analyze_contrast_accuracy over its results_files       *)
(***************************************************************************)
\* The type analysed in the analyzer run (the stand-in for 'contrast' / 'crop').
AnalysedType == <<"c">>

StripIdle ==
  /\ orig_id = <<>> /\ suffix = <<>> /\ base_key = <<>> /\ pert_key = <<>>
  /\ restrip_key = <<>> /\ split_key = <<>> /\ resplit_key = <<>>

LoaderIdle ==
  /\ results = None /\ all_results = None /\ file1_results = <<>>

BatchIdle ==
  /\ unit = 0 /\ main_all_results = EmptyDict /\ reported = <<>> /\ attempted = <<>>
  /\ results_files = <<>> /\ analysis = None /\ weighted = None

ExtractorIdle ==
  /\ response_text = <<>> /\ options = {} /\ answer = None

SimilarityIdle ==
  /\ data = None /\ marks = <<>> /\ succ = 0 /\ accuracy = None

EvaluationIdle == BatchIdle /\ ExtractorIdle /\ SimilarityIdle

ScriptIdle ==
  /\ sorted_attribute_accuracy = <<>> /\ crop_analysis = None /\ zoom_analysis = None

AccuracyIdle ==
  /\ predictions_file = <<>> /\ questions = <<>> /\ predictions = EmptyDict
  /\ pred_dict = <<>> /\ evaluation = None

ComparisonIdle ==
  /\ file2_results = <<>> /\ questions_with_differences = {} /\ sample_result = EmptyDict

OtherIdle == ScriptIdle /\ AccuracyIdle /\ ComparisonIdle

AnalyzerIdle ==
  /\ attribute_stats = EmptyDict
  /\ total_correct_all = 0
  /\ total_count_all = 0
  /\ all_question_results = EmptyDict
  /\ loaded = EmptyDict
  /\ summary = None

Init ==
  /\ pc = "files"
  /\ attribute_type = AnalysedType
  /\ AnalyzerIdle
  /\ StripIdle
  /\ LoaderIdle
  /\ EvaluationIdle
  /\ OtherIdle

\* Lines 31-53: the next results_file is opened (the inner loop over the previous
\* one, if any, has ended) and its shape resolved; the file's 'correct' and
\* 'total' fields are added to the running totals.
OpenFile(header) ==
  /\ pc \in {"files", "records"}
  /\ LET file_correct == Get(header.correct, 0)
         file_count == Get(header.total, 0)
     IN  /\ total_correct_all + file_correct <= MaxHeader
         /\ total_count_all + file_count <= MaxHeader
         /\ total_correct_all' = total_correct_all + file_correct
         /\ total_count_all' = total_count_all + file_count
  /\ pc' = "records"
  /\ UNCHANGED <<attribute_type, attribute_stats, all_question_results, loaded, summary>>
  /\ UNCHANGED stripVars
  /\ UNCHANGED loaderVars
  /\ UNCHANGED evaluationVars
  /\ UNCHANGED otherVars

\* Lines 55-79: one iteration of `for result in all_results`.
ProcessResult(result) ==
  /\ pc = "records"
  /\ BagSize(loaded) < MaxRecords
  /\ LET attribute_key == AttributeKey(result)
         is_correct == result.correct
         base_id == BaseId(result.original_question_id, attribute_type)
     IN  /\ attribute_stats' = StatsAfter(attribute_stats, attribute_key, is_correct)
         /\ all_question_results' =
              QuestionResultsAfter(all_question_results, base_id, attribute_key, is_correct)
  /\ loaded' = BagAdd(loaded, result)
  /\ UNCHANGED <<pc, attribute_type, total_correct_all, total_count_all, summary>>
  /\ UNCHANGED stripVars
  /\ UNCHANGED loaderVars
  /\ UNCHANGED evaluationVars
  /\ UNCHANGED otherVars

\* Lines 81-152: results_files is exhausted (there was no file, or the inner loop
\* over the last one has ended); the summary is built and returned.
ReturnSummary ==
  /\ pc \in {"files", "records"}
  /\ summary' = Some(Summary(attribute_stats, total_correct_all, total_count_all,
                             all_question_results, attribute_type))
  /\ pc' = "done"
  /\ UNCHANGED <<attribute_type, attribute_stats, total_correct_all, total_count_all,
                 all_question_results, loaded>>
  /\ UNCHANGED stripVars
  /\ UNCHANGED loaderVars
  /\ UNCHANGED evaluationVars
  /\ UNCHANGED otherVars

Next ==
  \/ \E header \in HeaderPool : OpenFile(header)
  \/ \E result \in RecordPool : ProcessResult(result)
  \/ ReturnSummary

Spec == Init /\ [][Next]_vars

\* key is what lies before the first occurrence of the delimiter in s, or s
\* itself when the delimiter does not occur (stated without the scan).
IsPartBeforeFirst(key, s, p) ==
  \/ /\ \A i \in 1..Len(s) : ~OccursAt(s, p, i)
     /\ key = s
  \/ \E i \in 1..Len(s) :
       /\ OccursAt(s, p, i)
       /\ \A j \in 1..(i - 1) : ~OccursAt(s, p, j)
       /\ key = SubSeq(s, 1, i - 1)

(***************************************************************************)
(* The analyzer run against the records it has read                        *)
(***************************************************************************)
TheSummary == CHOOSE sm \in summary : TRUE

\* The level a record stands for: 1.0 when it carries none.
LevelOf(r) == IF r.attribute = None THEN base_value ELSE CHOOSE l \in r.attribute : TRUE

\* The base question of a record, by the wording of the matcher's contract.
GroupTable ==
  [t \in AttributeTypes, id \in IdPool |->
     CHOOSE k \in {SubSeq(id, 1, n) : n \in 0..Len(id)} :
       IsPartBeforeFirst(k, id, SplitPattern(t))]

GroupOf(r) == GroupTable[attribute_type, r.original_question_id]

LoadedRecords == DOMAIN loaded
LoadedCount(S) == SumOver(loaded, S)
BasesSeen == {GroupOf(r) : r \in LoadedRecords}
LevelsSeen == {LevelOf(r) : r \in LoadedRecords}
RecordsOf(b) == {r \in LoadedRecords : GroupOf(r) = b}
RecordsAt(b, l) == {r \in RecordsOf(b) : LevelOf(r) = l}
LevelsOf(b) == {LevelOf(r) : r \in RecordsOf(b)}

\* C1 as claimed: the returned totals are the counts of the records read, and
\* total_accuracy is their quotient (0.0 without records).
C1_TotalsCountRecords ==
  pc = "done" =>
    LET n == LoadedCount(LoadedRecords)
        k == LoadedCount({r \in LoadedRecords : r.correct})
    IN  /\ TheSummary.total_count = n
        /\ TheSummary.total_correct = k
        /\ RatEq(TheSummary.total_accuracy, GuardedDiv(k, n))

\* C2: for every non-baseline level L seen, the entry "1.0 vs L" exists,
\* questions_compared is the number of base questions with a 1.0 record and an L
\* record, questions_agreed counts those whose 1.0 and L records agree (exactly
\* so when no base question has conflicting records at one level; otherwise
\* between the questions whose records all agree and those where some pair
\* does), and agreement_rate is their quotient.
C2_PairwiseAgreement ==
  pc = "done" =>
    LET bvo == TheSummary.agreement_analysis.base_vs_others_agreement
    IN  /\ DOMAIN bvo = LevelsSeen \ {base_value}
        /\ \A L \in DOMAIN bvo :
             LET both == {b \in BasesSeen :
                            RecordsAt(b, base_value) # {} /\ RecordsAt(b, L) # {}}
                 surely == {b \in both :
                              \A r1 \in RecordsAt(b, base_value), r2 \in RecordsAt(b, L) :
                                 r1.correct = r2.correct}
                 possibly == {b \in both :
                                \E r1 \in RecordsAt(b, base_value), r2 \in RecordsAt(b, L) :
                                   r1.correct = r2.correct}
             IN  /\ bvo[L].questions_compared = Cardinality(both)
                 /\ Cardinality(surely) <= bvo[L].questions_agreed
                 /\ bvo[L].questions_agreed <= Cardinality(possibly)
                 /\ bvo[L].questions_compared > 0 =>
                      RatEq(bvo[L].agreement_rate,
                            Frac(bvo[L].questions_agreed, bvo[L].questions_compared))

\* C2 witness: two base questions were read, one of them at 1.0 and at 0.5 with
\* equal correctness, and the summary reports 1 compared, 1 agreed.
C2_Witness ==
  /\ pc = "done"
  /\ Cardinality(BasesSeen) = 2
  /\ 5 \in DOMAIN TheSummary.agreement_analysis.base_vs_others_agreement
  /\ TheSummary.agreement_analysis.base_vs_others_agreement[5].questions_compared = 1
  /\ TheSummary.agreement_analysis.base_vs_others_agreement[5].questions_agreed = 1

\* C3: total_questions_compared is the number of base questions read at two or
\* more distinct levels, questions_with_full_agreement counts those among them
\* with one correctness value over all their levels (exactly so when no base
\* question has conflicting records at one level), overall_agreement_rate is
\* the quotient, and a question read at one level is not in the denominator.
C3_UnanimousAgreement ==
  pc = "done" =>
    LET ag == TheSummary.agreement_analysis
        multi == {b \in BasesSeen : Cardinality(LevelsOf(b)) >= 2}
        surely == {b \in multi : \A r1, r2 \in RecordsOf(b) : r1.correct = r2.correct}
        possibly == {b \in multi :
                       \E v \in BOOLEAN :
                          \A l \in LevelsOf(b) : \E r \in RecordsAt(b, l) : r.correct = v}
    IN  /\ ag.total_questions_compared = Cardinality(multi)
        /\ Cardinality(surely) <= ag.questions_with_full_agreement
        /\ ag.questions_with_full_agreement <= Cardinality(possibly)
        /\ RatEq(ag.overall_agreement_rate,
                 GuardedDiv(ag.questions_with_full_agreement, ag.total_questions_compared))
        /\ ag.total_questions_compared <= Cardinality(BasesSeen)
             - Cardinality({b \in BasesSeen : Cardinality(LevelsOf(b)) = 1})

\* C3 witness: one base question read at two levels with equal correctness and
\* another read at a single level; the summary counts 1 compared, 1 in agreement.
C3_Witness ==
  /\ pc = "done"
  /\ \E b \in BasesSeen : Cardinality(LevelsOf(b)) = 1
  /\ \E b \in BasesSeen : Cardinality(LevelsOf(b)) = 2
  /\ TheSummary.agreement_analysis.total_questions_compared = 1
  /\ TheSummary.agreement_analysis.questions_with_full_agreement = 1

\* C4: at every point of the run, each row of the per-level table has total =
\* number of records read at that level, correct = number of those that are
\* correct (so correct <= total), accuracy = correct / total; every level read
\* has a row, and the returned table is that table.
C4_PerLevelRows ==
  LET table == AttributeAccuracy(attribute_stats)
  IN  /\ DOMAIN table = LevelsSeen
      /\ \A l \in DOMAIN table :
           LET n == LoadedCount({r \in LoadedRecords : LevelOf(r) = l})
               k == LoadedCount({r \in LoadedRecords : LevelOf(r) = l /\ r.correct})
           IN  /\ table[l].total = n
               /\ table[l].correct = k
               /\ table[l].correct <= table[l].total
               /\ table[l].accuracy = Frac(k, n)
      /\ pc = "done" => TheSummary.attribute_accuracy = table

\* C4 witness: after a second file was opened, a returned row counts two
\* records of which one is correct.
C4_Witness ==
  /\ pc = "done"
  /\ \E l \in DOMAIN TheSummary.attribute_accuracy :
       /\ TheSummary.attribute_accuracy[l].total = 2
       /\ TheSummary.attribute_accuracy[l].correct = 1
  /\ Cardinality(DOMAIN TheSummary.attribute_accuracy) = 2

\* C5 as claimed: whenever total_count > 0, total_accuracy lies in [0, 1] and
\* total_correct <= total_count.
C5_AccuracyInUnitInterval ==
  (pc = "done" /\ TheSummary.total_count > 0) =>
    /\ TheSummary.total_accuracy.num >= 0
    /\ TheSummary.total_accuracy.num <= TheSummary.total_accuracy.den
    /\ TheSummary.total_correct <= TheSummary.total_count

Suffixes == {<<"a">>, <<"a", "_", "a">>}

InitStrip ==
  /\ pc = "strip"
  /\ attribute_type \in AttributeTypes
  /\ orig_id \in StringsUpTo(MaxIdLen)
  /\ suffix \in Suffixes
  /\ base_key = <<>> /\ pert_key = <<>> /\ restrip_key = <<>>
  /\ split_key = <<>> /\ resplit_key = <<>>
  /\ AnalyzerIdle
  /\ LoaderIdle
  /\ EvaluationIdle
  /\ OtherIdle

\* analyze_accuracy.py lines 76-78 on a record with id orig_id, on the record of
\* its perturbed variant, and on the key itself; detailed_zoom_comparison.py
\* lines 28-29 (the split without the `in` test) on orig_id and on its result.
StripIds ==
  /\ pc = "strip"
  /\ base_key' = BaseId(orig_id, attribute_type)
  /\ pert_key' = BaseId(orig_id \o SplitPattern(attribute_type) \o suffix, attribute_type)
  /\ restrip_key' = BaseId(BaseId(orig_id, attribute_type), attribute_type)
  /\ split_key' = SplitFirst(orig_id, SplitPattern(attribute_type))
  /\ resplit_key' = SplitFirst(SplitFirst(orig_id, SplitPattern(attribute_type)),
                               SplitPattern(attribute_type))
  /\ pc' = "stripped"
  /\ UNCHANGED <<attribute_type, orig_id, suffix>>
  /\ UNCHANGED analyzerVars
  /\ UNCHANGED loaderVars
  /\ UNCHANGED evaluationVars
  /\ UNCHANGED otherVars

NextStrip == StripIds

SpecStrip == InitStrip /\ [][NextStrip]_vars

\* The delimiter of the strip run.
Delim == SplitPattern(attribute_type)

\* s ends with '_<type>'
EndsWithTypeTag(s, t) ==
  LET tag == <<"_">> \o t
  IN  Len(s) >= Len(tag) /\ SubSeq(s, Len(s) - Len(tag) + 1, Len(s)) = tag

\* C6 as claimed: the key is the part before the first '_<type>_' (the whole id
\* when there is none), and the perturbed record id + '_<type>_' + suffix always
\* gets the key of the unperturbed record.
C6_SameGroupAlways ==
  pc = "stripped" =>
    /\ IsPartBeforeFirst(base_key, orig_id, Delim)
    /\ IsPartBeforeFirst(pert_key, orig_id \o Delim \o suffix, Delim)
    /\ pert_key = base_key

\* C6 amended: the key is the part before the first '_<type>_' (the whole id
\* when there is none); the perturbed record gets the key of the unperturbed
\* one unless the unperturbed id ends with '_<type>' without holding the
\* delimiter, where the appended delimiter completes an earlier occurrence.
C6_KeyIsPartBeforeFirst ==
  pc = "stripped" =>
    /\ IsPartBeforeFirst(base_key, orig_id, Delim)
    /\ IsPartBeforeFirst(pert_key, orig_id \o Delim \o suffix, Delim)
    /\ (Contains(orig_id, Delim) \/ ~EndsWithTypeTag(orig_id, attribute_type))
         => pert_key = base_key
    /\ (~Contains(orig_id, Delim) /\ EndsWithTypeTag(orig_id, attribute_type))
         => pert_key # base_key

\* C6 witness: an unperturbed id without delimiter and its perturbed variant
\* were both keyed, and both keys are the unperturbed id.
C6_Witness ==
  /\ pc = "stripped"
  /\ Len(orig_id) > 1
  /\ ~Contains(orig_id, Delim)
  /\ base_key = orig_id
  /\ pert_key = orig_id

\* C7: stripping is idempotent, with the `in` test (analyzers) and without it
\* (detailed_zoom_comparison); an id without the delimiter is returned unchanged.
C7_StripIdempotent ==
  pc = "stripped" =>
    /\ restrip_key = base_key
    /\ resplit_key = split_key
    /\ ~Contains(base_key, Delim)
    /\ (\A i \in 1..Len(orig_id) : ~OccursAt(orig_id, Delim, i))
         => (base_key = orig_id /\ split_key = orig_id)

\* C7 witness: an id holding the delimiter twice was stripped to a shorter,
\* non-empty key, and stripping the key gave the key again.
C7_Witness ==
  /\ pc = "stripped"
  /\ \E i, j \in 1..Len(orig_id) : i # j /\ OccursAt(orig_id, Delim, i) /\ OccursAt(orig_id, Delim, j)
  /\ base_key # orig_id
  /\ restrip_key = base_key

(***************************************************************************)
(* The loader run: one result file read by an analyzer and by a comparison *)
(* script                                                                  *)
(***************************************************************************)
\* Three distinguishable records for the loader run.
LoadRecordPool ==
  {[original_question_id |-> <<"a">>, attribute |-> None, correct |-> TRUE],
   [original_question_id |-> <<"a", "_", "c", "_", "a">>, attribute |-> Some(5), correct |-> FALSE],
   [original_question_id |-> <<"c">>, attribute |-> Some(10), correct |-> TRUE]}

RECURSIVE SeqsUpTo(_, _)
SeqsUpTo(S, n) ==
  IF n = 0 THEN {<<>>}
  ELSE LET shorter == SeqsUpTo(S, n - 1)
       IN  shorter \cup {Append(q, x) : q \in {y \in shorter : Len(y) = n - 1}, x \in S}

OptLists == {None} \cup {Some(q) : q \in SeqsUpTo(LoadRecordPool, MaxLoadRecords)}

\* results['gpuN_results']: an object that may hold 'detailed_results'
Partitions == [detailed_results : OptLists]

ListLen(opt) == IF opt = None THEN 0 ELSE Len(Get(opt, <<>>))
PartLen(opt) == IF opt = None THEN 0 ELSE ListLen(Get(opt, [detailed_results |-> None]).detailed_results)

\* The parsed JSON object of a result file: every key may be missing.
LoadFiles ==
  {f \in [detailed_results : OptLists,
          gpu0_results : {None} \cup {Some(part) : part \in Partitions},
          gpu1_results : {None} \cup {Some(part) : part \in Partitions},
          correct : {None, Some(1)},
          total : {None, Some(1)}] :
     ListLen(f.detailed_results) + PartLen(f.gpu0_results) + PartLen(f.gpu1_results)
       <= MaxLoadRecords}

NoPartition == [detailed_results |-> None]

\* The analyzers' loader with the first partition read twice.
AnalyzerLoadFirstTwice(file) ==
  IF file.gpu0_results # None /\ file.gpu1_results # None
  THEN LET part0 == Get(file.gpu0_results, NoPartition)
           part1 == Get(file.gpu1_results, NoPartition)
       IN  IF part0.detailed_results = None \/ part1.detailed_results = None
           THEN [raised |-> TRUE, records |-> <<>>]
           ELSE [raised |-> FALSE,
                 records |-> Get(part0.detailed_results, <<>>)
                               \o Get(part0.detailed_results, <<>>)]
  ELSE [raised |-> FALSE, records |-> Get(file.detailed_results, <<>>)]

\* Lines 36-49 of the analyzers: both partition keys present -> the two
\* partitions' lists, gpu0 first (a partition without 'detailed_results' is a
\* KeyError); otherwise results.get('detailed_results', []).
AnalyzerLoad(file) ==
  IF file.gpu0_results # None /\ file.gpu1_results # None
  THEN LET part0 == Get(file.gpu0_results, NoPartition)
           part1 == Get(file.gpu1_results, NoPartition)
       IN  IF part0.detailed_results = None \/ part1.detailed_results = None
           THEN [raised |-> TRUE, records |-> <<>>]
           ELSE [raised |-> FALSE,
                 records |-> Get(part0.detailed_results, <<>>)
                               \o Get(part1.detailed_results, <<>>)]
  ELSE [raised |-> FALSE, records |-> Get(file.detailed_results, <<>>)]

\* if gpu_key in file_data and 'detailed_results' in file_data[gpu_key]: extend
PartitionList(opt) ==
  IF opt = None THEN <<>> ELSE Get(Get(opt, NoPartition).detailed_results, <<>>)

\* The comparison scripts' loader: for gpu_key in ['gpu0_results', 'gpu1_results']
CompareLoad(file_data) ==
  PartitionList(file_data.gpu0_results) \o PartitionList(file_data.gpu1_results)

\* The inner loop over a whole list: st is [stats, aqr, bag].
RECURSIVE Aggregate(_, _, _)
Aggregate(records, st, atype) ==
  IF records = <<>> THEN st
  ELSE LET result == Head(records)
           key == AttributeKey(result)
           base_id == BaseId(result.original_question_id, atype)
       IN  Aggregate(Tail(records),
                     [stats |-> StatsAfter(st.stats, key, result.correct),
                      aqr |-> QuestionResultsAfter(st.aqr, base_id, key, result.correct),
                      bag |-> BagAdd(st.bag, result)],
                     atype)

InitLoad ==
  /\ pc = "load"
  /\ attribute_type = AnalysedType
  /\ results \in {Some(f) : f \in LoadFiles}
  /\ all_results = None
  /\ file1_results = <<>>
  /\ AnalyzerIdle
  /\ StripIdle
  /\ EvaluationIdle
  /\ OtherIdle

TheFile == Get(results, [detailed_results |-> None, gpu0_results |-> None,
                         gpu1_results |-> None, correct |-> None, total |-> None])

\* analyze_contrast_accuracy(results_file) on the one file: lines 31-152.
AnalyzerReads ==
  /\ pc = "load"
  /\ LET ld == AnalyzerLoad(TheFile)
         st == Aggregate(ld.records,
                         [stats |-> EmptyDict, aqr |-> EmptyDict, bag |-> EmptyDict],
                         attribute_type)
         file_correct == Get(TheFile.correct, 0)
         file_count == Get(TheFile.total, 0)
     IN  IF ld.raised
         THEN /\ pc' = "raised"
              /\ UNCHANGED <<all_results>>
              /\ UNCHANGED analyzerVars
         ELSE /\ pc' = "analyzed"
              /\ all_results' = Some(ld.records)
              /\ total_correct_all' = file_correct
              /\ total_count_all' = file_count
              /\ attribute_stats' = st.stats
              /\ all_question_results' = st.aqr
              /\ loaded' = st.bag
              /\ summary' = Some(Summary(st.stats, file_correct, file_count, st.aqr,
                                         attribute_type))
  /\ UNCHANGED <<attribute_type, results, file1_results>>
  /\ UNCHANGED stripVars
  /\ UNCHANGED evaluationVars
  /\ UNCHANGED otherVars

\* compare_evaluations.py lines 10-19 (zoom_analysis.py 10-18, detailed_zoom_comparison.py
\* 10-18, detailed_crop_comparison.py 21-29) on the same file.
CompareReads ==
  /\ pc = "load"
  /\ file1_results' = CompareLoad(TheFile)
  /\ pc' = "compared"
  /\ UNCHANGED <<attribute_type, results, all_results>>
  /\ UNCHANGED analyzerVars
  /\ UNCHANGED stripVars
  /\ UNCHANGED evaluationVars
  /\ UNCHANGED otherVars

NextLoad == AnalyzerReads \/ CompareReads

SpecLoad == InitLoad /\ [][NextLoad]_vars

\* The file holds both partitions, each with its detailed_results.
IsTwoPartition ==
  /\ TheFile.gpu0_results # None /\ TheFile.gpu1_results # None
  /\ Get(TheFile.gpu0_results, NoPartition).detailed_results # None
  /\ Get(TheFile.gpu1_results, NoPartition).detailed_results # None

\* The file is a single object holding detailed_results directly.
IsSingleObject ==
  /\ TheFile.detailed_results # None
  /\ TheFile.gpu0_results = None /\ TheFile.gpu1_results = None

Gpu0List == PartitionList(TheFile.gpu0_results)
Gpu1List == PartitionList(TheFile.gpu1_results)

\* C9: a two-partition file gives gpu0's records followed by gpu1's, in the
\* analyzers and in the comparison scripts, and the per-level totals the
\* analyzer builds from it add up to the sum of the two lengths.
C9_PartitionsConcatenated ==
  IsTwoPartition =>
    /\ pc = "analyzed" =>
         /\ all_results = Some(Gpu0List \o Gpu1List)
         /\ BagSize(loaded) = Len(Gpu0List) + Len(Gpu1List)
         /\ SumOver([l \in DOMAIN attribute_stats |-> attribute_stats[l].total],
                    DOMAIN attribute_stats) = Len(Gpu0List) + Len(Gpu1List)
    /\ pc = "compared" =>
         /\ file1_results = Gpu0List \o Gpu1List
         /\ Len(file1_results) = Len(Gpu0List) + Len(Gpu1List)
    /\ pc # "raised"

\* C9 witness: a file with one record in each partition, the two different,
\* has been read by the analyzer.
C9_Witness ==
  /\ pc = "analyzed"
  /\ IsTwoPartition
  /\ Len(Gpu0List) = 1 /\ Len(Gpu1List) = 1
  /\ Gpu0List # Gpu1List
  /\ BagSize(loaded) = 2

\* C10 as claimed: whichever script reads the file, a single-object file gives
\* its detailed_results and a two-partition file gives both partitions' records.
C10_BothShapesInEveryScript ==
  /\ (pc = "analyzed" /\ IsSingleObject) =>
       all_results = Some(Get(TheFile.detailed_results, <<>>))
  /\ (pc = "analyzed" /\ IsTwoPartition) => all_results = Some(Gpu0List \o Gpu1List)
  /\ (pc = "compared" /\ IsSingleObject) =>
       file1_results = Get(TheFile.detailed_results, <<>>)
  /\ (pc = "compared" /\ IsTwoPartition) => file1_results = Gpu0List \o Gpu1List

\* The parsed object has neither a detailed_results list nor both partitions,
\* each with its detailed_results list.
LacksExpectedShape ==
  /\ TheFile.detailed_results = None
  /\ \/ TheFile.gpu0_results = None
     \/ TheFile.gpu1_results = None
     \/ Get(TheFile.gpu0_results, NoPartition).detailed_results = None
     \/ Get(TheFile.gpu1_results, NoPartition).detailed_results = None

\* C12: a result file that parses but lacks the expected top-level shape makes
\* the analyzer raise; it is never aggregated as a file of zero records.
C12_ShapelessFileRaises ==
  (pc \in {"analyzed", "raised"} /\ LacksExpectedShape) => pc = "raised"

(***************************************************************************)
(* The batch run: main of eval_results/summary/analyze_accuracy.py and     *)
(* main of analyze_contrast_accuracy.py over their (model, dataset, type)  *)
(* units, each unit one analyzer call on two result files                  *)
(***************************************************************************)
model_types == <<"medgemma", "medllava">>
datasets == <<"chest_ct", "covid19_tianchi">>
\* data_types of the summary script and of the contrast script
SummaryDataTypes == <<"_contrast", "_crop">>
ContrastDataTypes == <<"_contrast">>

\* The unit keys (model_type, dataset, data_type) in the order of the three
\* nested loops.
UnitsOf(data_types) ==
  LET T == Len(data_types)
      D == Len(datasets)
  IN  [n \in 1..(Len(model_types) * D * T) |->
         <<model_types[((n - 1) \div (D * T)) + 1],
           datasets[(((n - 1) \div T) % D) + 1],
           data_types[((n - 1) % T) + 1]>>]

SummaryUnits == UnitsOf(SummaryDataTypes)
ContrastUnits == UnitsOf(ContrastDataTypes)

\* attribute_type = data_type[1:], as the stand-in types of the model
DataTypeAttribute(data_type) == IF data_type = "_contrast" THEN <<"c">> ELSE <<"a">>

\* What a path holds: no file, a file that is not JSON, or a parsed object.
EmptyObject == [detailed_results |-> None, gpu0_results |-> None,
                gpu1_results |-> None, correct |-> None, total |-> None]
MissingFile == [state |-> "missing", data |-> EmptyObject]
BadJsonFile == [state |-> "badjson", data |-> EmptyObject]
Parsed(obj) == [state |-> "json", data |-> obj]

\* Two partitions of which the second has no 'detailed_results'.
BrokenPartitionFile ==
  Parsed([EmptyObject EXCEPT
            !.gpu0_results = Some([detailed_results |-> Some(<<>>)]),
            !.gpu1_results = Some(NoPartition)])

\* The perturbed result file of a unit and its baseline file, one record each.
PerturbedFile ==
  Parsed([EmptyObject EXCEPT
            !.detailed_results =
               Some(<<[original_question_id |-> <<"a">>, attribute |-> Some(5),
                       correct |-> FALSE]>>),
            !.correct = Some(0), !.total = Some(1)])
BaselineFile ==
  Parsed([EmptyObject EXCEPT
            !.detailed_results =
               Some(<<[original_question_id |-> <<"a">>, attribute |-> None,
                       correct |-> TRUE]>>),
            !.correct = Some(1), !.total = Some(1)])

\* results_files of one unit: what the perturbed path and the baseline path hold
UnitFiles ==
  {<<f1, f2>> : f1 \in {MissingFile, BadJsonFile, BrokenPartitionFile, PerturbedFile},
                f2 \in {MissingFile, BadJsonFile, BrokenPartitionFile, BaselineFile}}

\* open() and json.load() that treat an absent file as an empty object.
OpenAndLoadLenient(file) ==
  IF file.state = "badjson" THEN [raised |-> "JSONDecodeError", results |-> EmptyObject]
  ELSE [raised |-> "", results |-> file.data]

\* with open(results_file, 'r') as f: results = json.load(f)
OpenAndLoad(file) ==
  IF file.state = "missing" THEN [raised |-> "FileNotFoundError", results |-> EmptyObject]
  ELSE IF file.state = "badjson" THEN [raised |-> "JSONDecodeError", results |-> EmptyObject]
  ELSE [raised |-> "", results |-> file.data]

\* The loop `for results_file in results_files` of the analyzer; the first
\* exception ends the call. st is [stats, aqr, bag, correct_all, count_all].
RECURSIVE ReadFiles(_, _, _)
ReadFiles(files, st, atype) ==
  IF files = <<>> THEN [raised |-> "", st |-> st]
  ELSE LET opened == OpenAndLoad(Head(files))
           ld == AnalyzerLoad(opened.results)
           agg == Aggregate(ld.records,
                            [stats |-> st.stats, aqr |-> st.aqr, bag |-> st.bag], atype)
       IN  IF opened.raised # "" THEN [raised |-> opened.raised, st |-> st]
           ELSE IF ld.raised THEN [raised |-> "KeyError", st |-> st]
           ELSE ReadFiles(Tail(files),
                          [stats |-> agg.stats, aqr |-> agg.aqr, bag |-> agg.bag,
                           correct_all |-> st.correct_all + Get(opened.results.correct, 0),
                           count_all |-> st.count_all + Get(opened.results.total, 0)],
                          atype)

\* analyze_contrast_accuracy(results_files, attribute_type): either an exception
\* leaves the function or the summary is returned.
AnalyzeCall(files, atype) ==
  LET r == ReadFiles(files,
                     [stats |-> EmptyDict, aqr |-> EmptyDict, bag |-> EmptyDict,
                      correct_all |-> 0, count_all |-> 0],
                     atype)
  IN  IF r.raised # ""
      THEN [raised |-> r.raised, summary |-> None]
      ELSE [raised |-> "",
            summary |-> Some(Summary(r.st.stats, r.st.correct_all, r.st.count_all,
                                     r.st.aqr, atype))]

\* calculate_weighted_averages: the analyses of one model and one type
Grouped(results_by_unit, model_type, atype) ==
  {k \in DOMAIN results_by_unit : k[1] = model_type /\ DataTypeAttribute(k[3]) = atype}

\* all_levels of one type
AllLevels(results_by_unit, atype) ==
  UNION {DOMAIN results_by_unit[k].attribute_accuracy :
           k \in {u \in DOMAIN results_by_unit : DataTypeAttribute(u[3]) = atype}}

\* all_pairs of one type, each pair "1.0 vs L" named by L
AllPairs(results_by_unit, atype) ==
  UNION {DOMAIN results_by_unit[k].agreement_analysis.base_vs_others_agreement :
           k \in {u \in DOMAIN results_by_unit : DataTypeAttribute(u[3]) = atype}}

\* one cell of the accuracy table: None is "N/A"
WeightedAccuracy(results_by_unit, model_type, atype, level) ==
  LET G == Grouped(results_by_unit, model_type, atype)
      row(k) == results_by_unit[k].attribute_accuracy
      corr == [k \in G |-> IF level \in DOMAIN row(k) THEN row(k)[level].correct ELSE 0]
      tot == [k \in G |-> IF level \in DOMAIN row(k) THEN row(k)[level].total ELSE 0]
  IN  IF G = {} THEN None ELSE Some(GuardedDiv(SumOver(corr, G), SumOver(tot, G)))

\* one cell of the agreement table
WeightedAgreement(results_by_unit, model_type, atype, level) ==
  LET G == Grouped(results_by_unit, model_type, atype)
      row(k) == results_by_unit[k].agreement_analysis.base_vs_others_agreement
      agr == [k \in G |-> IF level \in DOMAIN row(k) THEN row(k)[level].questions_agreed ELSE 0]
      cmp == [k \in G |-> IF level \in DOMAIN row(k) THEN row(k)[level].questions_compared ELSE 0]
  IN  IF G = {} THEN None ELSE Some(GuardedDiv(SumOver(agr, G), SumOver(cmp, G)))

\* calculate_weighted_averages(all_results): the two tables of each type, and the
\* unit keys the function iterated over.
CalculateWeightedAverages(results_by_unit) ==
  [units |-> DOMAIN results_by_unit,
   accuracy |->
     [atype \in AttributeTypes |->
        [level \in AllLevels(results_by_unit, atype) |->
           [m \in {model_types[i] : i \in DOMAIN model_types} |->
              WeightedAccuracy(results_by_unit, m, atype, level)]]],
   agreement |->
     [atype \in AttributeTypes |->
        [level \in AllPairs(results_by_unit, atype) |->
           [m \in {model_types[i] : i \in DOMAIN model_types} |->
              WeightedAgreement(results_by_unit, m, atype, level)]]]]

\* The summary script's except branches end in return 1.
SummaryAfterErrorReturns == "summary_return_1"

\* The summary script's except branches end in `continue`: the loop goes on.
SummaryAfterError == "summary_loop"

\* The contrast script's except branches end in `return 1`.
ContrastAfterError == "contrast_return_1"

DictPut(d, k, v) == [x \in DOMAIN d \cup {k} |-> IF x = k THEN v ELSE d[x]]

InitBatch ==
  /\ pc \in {"summary_loop", "contrast_loop"}
  /\ attribute_type = AnalysedType
  /\ unit = 1
  /\ main_all_results = EmptyDict
  /\ reported = <<>>
  /\ attempted = <<>>
  /\ results_files = <<>>
  /\ analysis = None
  /\ weighted = None
  /\ AnalyzerIdle
  /\ StripIdle
  /\ LoaderIdle
  /\ ExtractorIdle
  /\ SimilarityIdle
  /\ OtherIdle

\* One iteration of the loops of the summary script (lines 447-471).
SummaryUnit(files) ==
  /\ pc = "summary_loop"
  /\ unit <= Len(SummaryUnits)
  /\ LET key == SummaryUnits[unit]
         call == AnalyzeCall(files, DataTypeAttribute(key[3]))
     IN  /\ results_files' = files
         /\ analysis' = Some(call)
         /\ attempted' = Append(attempted, [unit |-> key, failed |-> call.raised # ""])
         /\ IF call.raised # ""
            THEN /\ pc' = SummaryAfterError
                 /\ UNCHANGED <<main_all_results, reported>>
            ELSE /\ pc' = "summary_loop"
                 /\ main_all_results' =
                      DictPut(main_all_results, key, Get(call.summary, EmptyDict))
                 /\ reported' = Append(reported, key)
  /\ unit' = unit + 1
  /\ UNCHANGED <<attribute_type, weighted>>
  /\ UNCHANGED <<analyzerVars, stripVars, loaderVars, extractorVars, similarityVars>>
  /\ UNCHANGED otherVars

\* After the loops of the summary script (lines 473-479): the weighted
\* averages, the charts, return 0.
WeightedAverages ==
  /\ pc = "summary_loop"
  /\ unit > Len(SummaryUnits)
  /\ weighted' = Some(CalculateWeightedAverages(main_all_results))
  /\ pc' = "summary_return_0"
  /\ UNCHANGED <<attribute_type, unit, main_all_results, reported, attempted,
                 results_files, analysis>>
  /\ UNCHANGED <<analyzerVars, stripVars, loaderVars, extractorVars, similarityVars>>
  /\ UNCHANGED otherVars

\* One iteration of the loops of the contrast script (lines 186-208).
ContrastUnit(files) ==
  /\ pc = "contrast_loop"
  /\ unit <= Len(ContrastUnits)
  /\ LET key == ContrastUnits[unit]
         call == AnalyzeCall(files, DataTypeAttribute(key[3]))
     IN  /\ results_files' = files
         /\ analysis' = Some(call)
         /\ attempted' = Append(attempted, [unit |-> key, failed |-> call.raised # ""])
         /\ IF call.raised # ""
            THEN /\ pc' = ContrastAfterError
                 /\ UNCHANGED reported
            ELSE /\ pc' = "contrast_loop"
                 /\ reported' = Append(reported, key)
  /\ unit' = unit + 1
  /\ UNCHANGED <<attribute_type, main_all_results, weighted>>
  /\ UNCHANGED <<analyzerVars, stripVars, loaderVars, extractorVars, similarityVars>>
  /\ UNCHANGED otherVars

\* After the loops of the contrast script (line 210): return 0.
ContrastReturn ==
  /\ pc = "contrast_loop"
  /\ unit > Len(ContrastUnits)
  /\ pc' = "contrast_return_0"
  /\ UNCHANGED <<attribute_type, batchVars>>
  /\ UNCHANGED <<analyzerVars, stripVars, loaderVars, extractorVars, similarityVars>>
  /\ UNCHANGED otherVars

NextBatch ==
  \/ \E files \in UnitFiles : SummaryUnit(files)
  \/ WeightedAverages
  \/ \E files \in UnitFiles : ContrastUnit(files)
  \/ ContrastReturn

SpecBatch == InitBatch /\ [][NextBatch]_vars

TheAnalysis == Get(analysis, [raised |-> "", summary |-> None])

\* Some path of the latest call is absent or is not JSON.
SomePathUnreadable ==
  \E i \in DOMAIN results_files : results_files[i].state \in {"missing", "badjson"}

\* C11: when a path given to the analyzer does not exist or does not hold JSON,
\* the call ends with an exception and no summary; main, its caller, stores
\* nothing for the unit, whatever the earlier files of the call held.
C11_UnreadablePathNoSummary ==
  (analysis # None /\ SomePathUnreadable) =>
     /\ TheAnalysis.raised # ""
     /\ TheAnalysis.summary = None
     /\ attempted[Len(attempted)].failed
     /\ attempted[Len(attempted)].unit \notin DOMAIN main_all_results

\* C11 witness: the first file was read, with its record, and the second path
\* is absent; the call raised.
C11_Witness ==
  /\ analysis # None
  /\ Len(results_files) = 2
  /\ results_files[1] = PerturbedFile
  /\ results_files[2] = MissingFile
  /\ TheAnalysis.raised = "FileNotFoundError"
  /\ TheAnalysis.summary = None

\* The unit keys of the calls made so far, and of those that raised.
AttemptedUnits == [i \in DOMAIN attempted |-> attempted[i].unit]
FailedUnits == {attempted[i].unit : i \in {j \in DOMAIN attempted : attempted[j].failed}}
SucceededUnits == {attempted[i].unit : i \in {j \in DOMAIN attempted : ~attempted[j].failed}}
ReportedUnits == {reported[i] : i \in DOMAIN reported}

\* C13: in the summary script a failed unit is skipped and nothing else: the
\* loop stays at the next unit after every call, failed units are absent from
\* all_results and unreported, and the script ends only after every unit was
\* attempted, with the weighted averages computed over the succeeded units.
C13_FailureSkipsOnlyThatUnit ==
  pc \in {"summary_loop", "summary_return_0", "summary_return_1"} =>
    /\ pc # "summary_return_1"
    /\ Len(attempted) = unit - 1
    /\ AttemptedUnits = SubSeq(SummaryUnits, 1, unit - 1)
    /\ DOMAIN main_all_results = SucceededUnits
    /\ ReportedUnits = SucceededUnits
    /\ FailedUnits \cap (DOMAIN main_all_results \cup ReportedUnits) = {}
    /\ (pc = "summary_loop") => weighted = None
    /\ (pc = "summary_return_0") =>
          /\ AttemptedUnits = SummaryUnits
          /\ weighted # None
          /\ Get(weighted, [units |-> {}]).units = SucceededUnits

\* C13 witness: the summary script has returned after a run in which the first
\* unit failed, a later unit succeeded and a still later one failed again.
C13_Witness ==
  /\ pc = "summary_return_0"
  /\ attempted[1].failed
  /\ \E i, j \in DOMAIN attempted : i < j /\ ~attempted[i].failed /\ attempted[j].failed
  /\ weighted # None

\* C14: in the contrast script a unit whose input is missing or malformed
\* aborts only that unit: when the script ends every unit has been analysed,
\* and every unit that did not fail has been reported.
C14_LaterUnitsStillAnalysed ==
  pc \in {"contrast_return_0", "contrast_return_1"} =>
    /\ AttemptedUnits = ContrastUnits
    /\ ReportedUnits = SucceededUnits

(***************************************************************************)
(* The answer extractor: extract_multiple_choice_answer of                 *)
(* llava/eval/eval_pattern_matching.py, its regular expressions computed   *)
(* by scanning the characters of the response                              *)
(***************************************************************************)
\* The pieces a response is put together from: punctuation, a blank, an
\* upper-case and a lower-case option letter, and words of the patterns.
TokenPool ==
  {<<"{">>, <<"}">>, <<")">>, <<".">>, <<" ">>, <<"A">>, <<"b">>,
   <<"a", "n", "s", "w", "e", "r", " ", "i", "s", " ">>,
   <<"a", "n", "s", "w", "e", "r", ":">>,
   <<"o", "p", "t", "i", "o", "n", " ">>}

\* The responses tried: every concatenation of at most n pieces.
RECURSIVE TextsUpTo(_)
TextsUpTo(n) ==
  IF n = 0 THEN {<<>>}
  ELSE LET shorter == TextsUpTo(n - 1)
       IN  shorter \cup {t \o piece : t \in shorter, piece \in TokenPool}

Texts == TextsUpTo(MaxTokens)

\* The options arguments tried: the default list and a shorter one.
DefaultOptions == {"A", "B", "C", "D"}
OptionLists == {DefaultOptions, {"A"}}

\* str.upper() and the lower-casing of re.IGNORECASE on the letters of the model
Upper(ch) ==
  CASE ch = "a" -> "A" [] ch = "b" -> "B" [] ch = "c" -> "C" [] ch = "d" -> "D"
    [] OTHER -> ch
Lower(ch) ==
  CASE ch = "A" -> "a" [] ch = "B" -> "b" [] ch = "C" -> "c" [] ch = "D" -> "d"
    [] OTHER -> ch

\* \s, [A-D] under re.IGNORECASE, and \w (every character of the model that is
\* no blank and no punctuation is a letter)
IsSpace(ch) == ch = " "
IsLetterAD(ch) == Upper(ch) \in {"A", "B", "C", "D"}
IsWordChar(ch) == ch \notin {" ", "{", "}", "(", ")", ".", ":", ","}

\* response_text.strip()
Strip(s) ==
  LET kept == {i \in DOMAIN s : ~IsSpace(s[i])}
      first == CHOOSE i \in kept : \A j \in kept : i <= j
      last == CHOOSE i \in kept : \A j \in kept : j <= i
  IN  IF kept = {} THEN <<>> ELSE SubSeq(s, first, last)

\* Pieces of a pattern. A position is where the next piece starts; 0 is "no
\* match". Lit is a literal word, Spaces1 is \s+, Spaces0 is \s*, Letter is the
\* group ([A-D]) and gives the position of the captured letter.
Lit(s, i, w) ==
  IF i # 0 /\ i + Len(w) - 1 <= Len(s) /\ \A k \in DOMAIN w : Lower(s[i + k - 1]) = w[k]
  THEN i + Len(w) ELSE 0

RECURSIVE SkipSpaces(_, _)
SkipSpaces(s, i) == IF i <= Len(s) /\ IsSpace(s[i]) THEN SkipSpaces(s, i + 1) ELSE i

Spaces1(s, i) == IF i # 0 /\ i <= Len(s) /\ IsSpace(s[i]) THEN SkipSpaces(s, i) ELSE 0
Spaces0(s, i) == IF i = 0 THEN 0 ELSE SkipSpaces(s, i)

\* [,\s]*
RECURSIVE SkipCommasSpaces(_, _)
SkipCommasSpaces(s, i) ==
  IF i # 0 /\ i <= Len(s) /\ (IsSpace(s[i]) \/ s[i] = ",")
  THEN SkipCommasSpaces(s, i + 1) ELSE i

Letter(s, i) == IF i # 0 /\ i <= Len(s) /\ IsLetterAD(s[i]) THEN i ELSE 0

\* \b before the letter at i: the text starts there or a non-word character precedes
BoundaryBefore(s, i) == i = 1 \/ ~IsWordChar(s[i - 1])

W_the == <<"t", "h", "e">>
W_answer == <<"a", "n", "s", "w", "e", "r">>
W_is == <<"i", "s">>
W_therefore == <<"t", "h", "e", "r", "e", "f", "o", "r", "e">>
W_corresponds == <<"c", "o", "r", "r", "e", "s", "p", "o", "n", "d", "s">>
W_to == <<"t", "o">>
W_option == <<"o", "p", "t", "i", "o", "n">>

\* answer\s+is\s+([A-D]) tried at i
AnswerIsAt(s, i) == Letter(s, Spaces1(s, Lit(s, Spaces1(s, Lit(s, i, W_answer)), W_is)))

\* Each pattern tried at start position i: the position of the captured letter,
\* 0 when the pattern does not match there. An optional group is taken when it
\* matches; where it matches, the pattern cannot match without it, because the
\* group starts with a letter outside [A-D].
\*   \{([A-D])\}
BracketAt(s, i) ==
  IF i + 2 <= Len(s) /\ s[i] = "{" /\ IsLetterAD(s[i + 1]) /\ s[i + 2] = "}"
  THEN i + 1 ELSE 0

\*   (?:the\s+)?answer\s+is\s+([A-D])
PhraseAnswerIsAt(s, i) ==
  LET after_the == Spaces1(s, Lit(s, i, W_the))
  IN  IF after_the # 0 THEN AnswerIsAt(s, after_the) ELSE AnswerIsAt(s, i)

\*   answer\s*[:]\s*([A-D])
PhraseAnswerColonAt(s, i) ==
  Letter(s, Spaces0(s, Lit(s, Spaces0(s, Lit(s, i, W_answer)), <<":">>)))

\*   therefore[,\s]*(?:the\s+answer\s+is\s+)?([A-D])
PhraseThereforeAt(s, i) ==
  LET j == SkipCommasSpaces(s, Lit(s, i, W_therefore))
      with_group == AnswerIsAt(s, Spaces1(s, Lit(s, j, W_the)))
  IN  IF with_group # 0 THEN with_group ELSE Letter(s, j)

\*   corresponds\s+to\s+(?:option\s+)?([A-D])
PhraseCorrespondsAt(s, i) ==
  LET j == Spaces1(s, Lit(s, Spaces1(s, Lit(s, i, W_corresponds)), W_to))
      with_group == Letter(s, Spaces1(s, Lit(s, j, W_option)))
  IN  IF with_group # 0 THEN with_group ELSE Letter(s, j)

\*   \b([A-D])\)
IsolatedParenAt(s, i) ==
  IF i + 1 <= Len(s) /\ IsLetterAD(s[i]) /\ BoundaryBefore(s, i) /\ s[i + 1] = ")"
  THEN i ELSE 0

\*   \(([A-D])\)
IsolatedBothParensAt(s, i) ==
  IF i + 2 <= Len(s) /\ s[i] = "(" /\ IsLetterAD(s[i + 1]) /\ s[i + 2] = ")"
  THEN i + 1 ELSE 0

\*   \b([A-D])\.
IsolatedDotAt(s, i) ==
  IF i + 1 <= Len(s) /\ IsLetterAD(s[i]) /\ BoundaryBefore(s, i) /\ s[i + 1] = "."
  THEN i ELSE 0

\*   option\s+([A-D])
IsolatedOptionAt(s, i) == Letter(s, Spaces1(s, Lit(s, i, W_option)))

\* re.search: the match at the leftmost start; hits[i] is the captured position
\* of the match starting at i.
SearchFirst(hits) ==
  LET starts == {i \in DOMAIN hits : hits[i] # 0}
  IN  IF starts = {} THEN 0 ELSE hits[CHOOSE i \in starts : \A j \in starts : i <= j]

\* re.findall(...)[-1]: no two matches of one isolated pattern overlap, so the
\* last element is the match with the rightmost start.
FindallLast(hits) ==
  LET starts == {i \in DOMAIN hits : hits[i] # 0}
  IN  IF starts = {} THEN 0 ELSE hits[CHOOSE i \in starts : \A j \in starts : j <= i]

\* What each rule captures in the stripped text s (0: the rule does not match)
BracketMatch(s) == SearchFirst([i \in DOMAIN s |-> BracketAt(s, i)])
PhraseMatches(s) ==
  <<SearchFirst([i \in DOMAIN s |-> PhraseAnswerIsAt(s, i)]),
    SearchFirst([i \in DOMAIN s |-> PhraseAnswerColonAt(s, i)]),
    SearchFirst([i \in DOMAIN s |-> PhraseThereforeAt(s, i)]),
    SearchFirst([i \in DOMAIN s |-> PhraseCorrespondsAt(s, i)])>>
IsolatedMatches(s) ==
  <<FindallLast([i \in DOMAIN s |-> IsolatedParenAt(s, i)]),
    FindallLast([i \in DOMAIN s |-> IsolatedBothParensAt(s, i)]),
    FindallLast([i \in DOMAIN s |-> IsolatedDotAt(s, i)]),
    FindallLast([i \in DOMAIN s |-> IsolatedOptionAt(s, i)])>>

\* The isolated-letter patterns tried before the bracket and phrase patterns.
RuleOrderIsolatedFirst(s) == IsolatedMatches(s) \o <<BracketMatch(s)>> \o PhraseMatches(s)

\* The order in which the function tries its patterns (lines 62-98).
RuleOrder(s) == <<BracketMatch(s)>> \o PhraseMatches(s) \o IsolatedMatches(s)

\* Every captured letter is accepted.
InOptionsAlways(label, opts) == TRUE

\* if answer in options
InOptions(label, opts) == label \in opts

\* extract_multiple_choice_answer(response_text, options)
ExtractMultipleChoiceAnswer(text, opts) ==
  IF text = <<>> THEN None
  ELSE LET s == Strip(text)
           found == RuleOrder(s)
           good == {n \in DOMAIN found :
                      found[n] # 0 /\ InOptions(Upper(s[found[n]]), opts)}
           first == CHOOSE n \in good : \A m \in good : n <= m
       IN  IF good = {} THEN None ELSE Some(Upper(s[found[first]]))

InitExtract ==
  /\ pc = "extract"
  /\ attribute_type = AnalysedType
  /\ response_text \in Texts
  /\ options = {}
  /\ answer = None
  /\ AnalyzerIdle
  /\ StripIdle
  /\ LoaderIdle
  /\ BatchIdle
  /\ SimilarityIdle
  /\ OtherIdle

\* One call of the extractor.
ExtractAnswer(opts) ==
  /\ pc = "extract"
  /\ options' = opts
  /\ answer' = ExtractMultipleChoiceAnswer(response_text, opts)
  /\ pc' = "extracted"
  /\ UNCHANGED <<attribute_type, response_text>>
  /\ UNCHANGED <<analyzerVars, stripVars, loaderVars, batchVars, similarityVars>>
  /\ UNCHANGED otherVars

NextExtract == \E opts \in OptionLists : ExtractAnswer(opts)

SpecExtract == InitExtract /\ [][NextExtract]_vars

\* The stripped response of the extractor run, and what its three rules find.
Stripped == Strip(response_text)
Extracted == pc = "extracted"
LabelAt(p) == Upper(Stripped[p])
FirstNonZero(found) ==
  LET hit == {n \in DOMAIN found : found[n] # 0}
  IN  IF hit = {} THEN 0 ELSE found[CHOOSE n \in hit : \A m \in hit : n <= m]
\* every position captured by some isolated-letter pattern, at any start
IsolatedCaptures(s) ==
  UNION {{IsolatedParenAt(s, i), IsolatedBothParensAt(s, i),
          IsolatedDotAt(s, i), IsolatedOptionAt(s, i)} : i \in DOMAIN s} \ {0}

\* C15: with the default options, a bracketed marker decides; without one, the
\* first explicit phrase pattern that matches decides; without either, the
\* answer is a letter captured by an isolated-letter pattern. A rule of lower
\* priority never overrides.
C15_PriorityOrder ==
  (Extracted /\ options = DefaultOptions) =>
     LET s == Stripped
         bracket == BracketMatch(s)
         phrase == FirstNonZero(PhraseMatches(s))
         isolated == IsolatedCaptures(s)
     IN  /\ bracket # 0 => answer = Some(Upper(s[bracket]))
         /\ (bracket = 0 /\ phrase # 0) => answer = Some(Upper(s[phrase]))
         /\ (bracket = 0 /\ phrase = 0 /\ isolated # {}) =>
               \E p \in isolated : answer = Some(Upper(s[p]))

\* C15 witness: a phrase pattern and an isolated-letter pattern both match, with
\* different letters, and the phrase's letter was returned.
C15_Witness ==
  /\ Extracted /\ options = DefaultOptions
  /\ BracketMatch(Stripped) = 0
  /\ FirstNonZero(PhraseMatches(Stripped)) # 0
  /\ answer = Some(LabelAt(FirstNonZero(PhraseMatches(Stripped))))
  /\ \E p \in IsolatedCaptures(Stripped) : Some(LabelAt(p)) # answer

\* C16: when only isolated-letter patterns match, the answer is the letter of
\* the isolated match that occurs last in the text, whatever its form.
C16_LastIsolatedMatchWins ==
  (Extracted /\ options = DefaultOptions) =>
     LET s == Stripped
         isolated == IsolatedCaptures(s)
         last == CHOOSE p \in isolated : \A q \in isolated : q <= p
     IN  (BracketMatch(s) = 0 /\ FirstNonZero(PhraseMatches(s)) = 0 /\ isolated # {}) =>
            answer = Some(Upper(s[last]))

\* No bracket, phrase or isolated-letter pattern matches the stripped response.
NoRuleMatches ==
  /\ BracketMatch(Stripped) = 0
  /\ FirstNonZero(PhraseMatches(Stripped)) = 0
  /\ IsolatedCaptures(Stripped) = {}

\* The option letter at p stands alone: no word character on either side.
StandsAlone(s, p) ==
  /\ s[p] \in DefaultOptions
  /\ BoundaryBefore(s, p)
  /\ (p = Len(s) \/ ~IsWordChar(s[p + 1]))

\* number of whole-word occurrences of an option letter
WordCount(s, letter) == Cardinality({p \in DOMAIN s : s[p] = letter /\ StandsAlone(s, p)})

\* C17: when no rule matches, the letter with the strict maximum count of
\* whole-word occurrences is returned, and a tie or no occurrence gives None.
C17_FrequencyFallback ==
  (Extracted /\ options = DefaultOptions /\ NoRuleMatches) =>
     LET s == Stripped
         winners == {l \in DefaultOptions :
                       /\ WordCount(s, l) > 0
                       /\ \A m \in DefaultOptions \ {l} : WordCount(s, m) < WordCount(s, l)}
     IN  IF winners = {} THEN answer = None
         ELSE \E l \in winners : answer = Some(l)

\* C18: when no rule matches and the response starts or ends with an option
\* letter standing alone (or is just that letter), that letter is returned.
C18_LoneLetterAtEdge ==
  (Extracted /\ options = DefaultOptions /\ NoRuleMatches /\ Stripped # <<>>) =>
     LET s == Stripped
         edges == {p \in {1, Len(s)} : StandsAlone(s, p)}
     IN  edges # {} => \E p \in edges : answer = Some(s[p])

\* C19: the extractor returns None or an upper-case label that is one of the
\* given options; an empty response gives None, and the lower-case marker {b}
\* gives B whenever B is an option.
C19_AnswerIsAnOptionOrNone ==
  Extracted =>
     /\ answer = None \/ \E l \in options \cap {"A", "B", "C", "D"} : answer = Some(l)
     /\ response_text = <<>> => answer = None
     /\ Stripped = <<>> => answer = None
     /\ (Stripped = <<"{", "b", "}">> /\ "B" \in options) => answer = Some("B")

\* C19 witness: the response {b} under the default options gave B.
C19_Witness ==
  /\ Extracted
  /\ response_text = <<"{", "b", "}">>
  /\ options = DefaultOptions
  /\ answer = Some("B")

(***************************************************************************)
(* The similarity strategy: str_similarity, find_most_similar_index and    *)
(* MedicalEval of llava/eval/eval_pattern_matching.py                      *)
(***************************************************************************)
\* Option texts, predictions and ground-truth texts of the similarity run.
OptionAB == {None, Some(<<"x">>), Some(<<"y">>)}
OptionC == {None, Some(<<"x", "y">>)}
OptionD == {None, Some(<<"y", "x">>)}
Predictions == {None, Some(<<"x">>), Some(<<"x", "y">>), Some(<<"z">>)}
GroundTruths == {<<"x">>, <<"y">>, <<"x", "y">>}

\* One element of pred_dict; {} is a missing key or null.
PredPool ==
  [option_A : OptionAB, option_B : OptionAB, option_C : OptionC, option_D : OptionD,
   model_pred : Predictions, gt_answer : GroundTruths]

\* difflib's find_longest_match on a[alo..ahi] and b[blo..bhi]: the blocks
\* <<i, j, k>> with a[i..i+k-1] = b[j..j+k-1], and of the longest ones the one
\* that starts earliest in a, then earliest in b.
MatchingBlocks(a, alo, ahi, b, blo, bhi) ==
  {blk \in (alo..ahi) \X (blo..bhi) \X (1..Len(a)) :
     /\ blk[1] + blk[3] - 1 <= ahi
     /\ blk[2] + blk[3] - 1 <= bhi
     /\ \A t \in 0..(blk[3] - 1) : a[blk[1] + t] = b[blk[2] + t]}

LongestMatch(a, alo, ahi, b, blo, bhi) ==
  LET blocks == MatchingBlocks(a, alo, ahi, b, blo, bhi)
      Before(x, y) ==
        \/ x[3] > y[3]
        \/ x[3] = y[3] /\ x[1] < y[1]
        \/ x[3] = y[3] /\ x[1] = y[1] /\ x[2] <= y[2]
  IN  IF blocks = {} THEN <<alo, blo, 0>>
      ELSE CHOOSE x \in blocks : \A y \in blocks : Before(x, y)

\* get_matching_blocks: the number of matched characters, the longest block
\* first and then the pieces to its left and to its right.
RECURSIVE Matched(_, _, _, _, _, _)
Matched(a, alo, ahi, b, blo, bhi) ==
  IF alo > ahi \/ blo > bhi THEN 0
  ELSE LET m == LongestMatch(a, alo, ahi, b, blo, bhi)
       IN  IF m[3] = 0 THEN 0
           ELSE m[3] + Matched(a, alo, m[1] - 1, b, blo, m[2] - 1)
                     + Matched(a, m[1] + m[3], ahi, b, m[2] + m[3], bhi)

\* SequenceMatcher(None, str1, str2).ratio(): 2.0 * matches / length, and 1.0
\* when both strings are empty.
StrSimilarity(str1, str2) ==
  IF Len(str1) + Len(str2) = 0 THEN Frac(1, 1)
  ELSE Frac(2 * Matched(str1, 1, Len(str1), str2, 1, Len(str2)), Len(str1) + Len(str2))

\* The comparison that also replaces the best string by a later, equally
\* similar one.
AtLeast(similarity, highest_similarity) ==
  similarity.num * highest_similarity.den >= highest_similarity.num * similarity.den

\* if similarity > highest_similarity
Exceeds(similarity, highest_similarity) ==
  similarity.num * highest_similarity.den > highest_similarity.num * similarity.den

\* The loop of find_most_similar_index from position i on; index 0 is None. A
\* str_list element or a target that is None makes SequenceMatcher raise.
RECURSIVE MostSimilarFrom(_, _, _, _, _)
MostSimilarFrom(str_list, target_str, i, most_similar_index, highest_similarity) ==
  IF i > Len(str_list) THEN [raised |-> FALSE, index |-> most_similar_index]
  ELSE IF str_list[i] = None \/ target_str = None THEN [raised |-> TRUE, index |-> 0]
  ELSE LET similarity == StrSimilarity(Get(str_list[i], <<>>), Get(target_str, <<>>))
       IN  IF Exceeds(similarity, highest_similarity)
           THEN MostSimilarFrom(str_list, target_str, i + 1, i, similarity)
           ELSE MostSimilarFrom(str_list, target_str, i + 1, most_similar_index,
                                highest_similarity)

FindMostSimilarIndex(str_list, target_str) ==
  MostSimilarFrom(str_list, target_str, 1, 0, Zero)

\* answer_list = [a, b], then c and d when they are not None
AnswerList(d) ==
  <<d.option_A, d.option_B>>
    \o (IF d.option_C # None THEN <<d.option_C>> ELSE <<>>)
    \o (IF d.option_D # None THEN <<d.option_D>> ELSE <<>>)

\* The body of MedicalEval's loop for one element: the value written to
\* is_correct; any exception gives 'no'.
IsCorrectMark(d) ==
  LET answer_list == AnswerList(d)
      found == FindMostSimilarIndex(answer_list, d.model_pred)
  IN  IF found.raised THEN "no"
      ELSE IF found.index # 0 /\ answer_list[found.index] = Some(d.gt_answer) THEN "yes"
      ELSE "no"

InitSimilarity ==
  /\ pc = "medical_eval"
  /\ attribute_type = AnalysedType
  /\ data = None
  /\ marks = <<>>
  /\ succ = 0
  /\ accuracy = None
  /\ AnalyzerIdle
  /\ StripIdle
  /\ LoaderIdle
  /\ BatchIdle
  /\ ExtractorIdle
  /\ OtherIdle

\* One iteration of `for data in pred_dict` (lines 177-194).
EvalPrediction(d) ==
  /\ pc = "medical_eval"
  /\ Len(marks) < MaxPreds
  /\ data' = Some(d)
  /\ marks' = Append(marks, IsCorrectMark(d))
  /\ succ' = IF IsCorrectMark(d) = "yes" THEN succ + 1 ELSE succ
  /\ UNCHANGED <<pc, attribute_type, accuracy>>
  /\ UNCHANGED <<analyzerVars, stripVars, loaderVars, batchVars, extractorVars>>
  /\ UNCHANGED otherVars

\* return pred_dict, succ/tot (line 196); an empty pred_dict divides by zero.
ReturnAccuracy ==
  /\ pc = "medical_eval"
  /\ IF Len(marks) = 0
     THEN /\ pc' = "zero_division"
          /\ UNCHANGED accuracy
     ELSE /\ pc' = "returned"
          /\ accuracy' = Some(Frac(succ, Len(marks)))
  /\ UNCHANGED <<attribute_type, data, marks, succ>>
  /\ UNCHANGED <<analyzerVars, stripVars, loaderVars, batchVars, extractorVars>>
  /\ UNCHANGED otherVars

NextSimilarity ==
  \/ \E d \in PredPool : EvalPrediction(d)
  \/ ReturnAccuracy

SpecSimilarity == InitSimilarity /\ [][NextSimilarity]_vars

\* The element last handled by the loop, its listed options and their
\* similarity to the prediction.
TheData == CHOOSE d \in data : TRUE
LastMark == marks[Len(marks)]
Present(d) == {o \in {d.option_A, d.option_B, d.option_C, d.option_D} : o # None}
SimilarityTo(d, o) == StrSimilarity(Get(o, <<>>), Get(d.model_pred, <<>>))
\* the order of two quotients
Less(x, y) == x.num * y.den < y.num * x.den
\* the non-missing options no other non-missing option is more similar than
MostSimilarOptions(d) ==
  {o \in Present(d) : \A q \in Present(d) : ~Less(SimilarityTo(d, o), SimilarityTo(d, q))}
YesCount == Cardinality({i \in DOMAIN marks : marks[i] = "yes"})

\* C20 as stated: a prediction is marked correct exactly when the most similar
\* of the question's non-missing option texts equals gt_answer, and the
\* success count is the number of predictions so marked.
C20_CorrectIffMostSimilarIsTruth ==
  (data # None /\ TheData.model_pred # None) =>
     /\ LastMark = "yes" <=> Some(TheData.gt_answer) \in MostSimilarOptions(TheData)
     /\ succ = YesCount

\* C20 amended: a prediction is marked correct exactly when option_A, option_B
\* and the prediction are present, some listed option has a similarity above
\* zero, and the first option in the order A, B, C, D that reaches the highest
\* similarity equals gt_answer; succ counts the predictions so marked and the
\* function returns succ / len(pred_dict).
C20_CorrectIffFirstBestIsTruth ==
  /\ data # None =>
       LET d == TheData
           listed == AnswerList(d)
           usable == d.option_A # None /\ d.option_B # None /\ d.model_pred # None
           best == {i \in DOMAIN listed :
                      \A j \in DOMAIN listed :
                         ~Less(SimilarityTo(d, listed[i]), SimilarityTo(d, listed[j]))}
           first == CHOOSE i \in best : \A j \in best : i <= j
       IN  LastMark = "yes" <=>
             /\ usable
             /\ Less(Zero, SimilarityTo(d, listed[first]))
             /\ listed[first] = Some(d.gt_answer)
  /\ succ = YesCount
  /\ pc = "returned" => accuracy = Some(Frac(YesCount, Len(marks)))

\* C20 witness: two options are equally similar to the prediction, the first
\* of them is the ground truth, and the prediction was marked correct.
C20_Witness ==
  /\ data # None
  /\ TheData.option_A = Some(<<"x">>) /\ TheData.option_B = Some(<<"y">>)
  /\ TheData.option_C = None
  /\ TheData.model_pred = Some(<<"x", "y">>)
  /\ TheData.gt_answer = <<"x">>
  /\ LastMark = "yes"
  /\ succ = YesCount /\ succ > 0

(***************************************************************************)
(* The script run: the summary analyzer, analyze_crop_accuracy and          *)
(* analyze_zoom_accuracy called on the same result files                    *)
(***************************************************************************)
\* Records in all files of one script run, at most.
MaxScriptRecords == 3

\* 'crop' and 'zoom', the attribute names of the two single-purpose scripts
CropType == <<"c", "r", "o", "p">>
ZoomType == <<"z", "o", "o", "m">>

\* The suffix of a question asked again at crop level 0.5.
CropSuffix == SplitPattern(CropType) \o <<"0", ".", "5">>

\* A result file written by the evaluation: its records and their counts on top.
ResultFile(records) ==
  Parsed([EmptyObject EXCEPT
            !.detailed_results = Some(records),
            !.correct = Some(Cardinality({i \in DOMAIN records : records[i].correct})),
            !.total = Some(Len(records))])

\* The ten base questions of the end-to-end scenario.
ScenarioIds ==
  <<<<"a">>, <<"b">>, <<"c">>, <<"d">>, <<"e">>, <<"f">>, <<"g">>, <<"h">>, <<"i">>, <<"j">>>>

\* The unperturbed file: one record per question, all correct but `wrong`.
UnperturbedFile(wrong) ==
  ResultFile([i \in DOMAIN ScenarioIds |->
                [original_question_id |-> ScenarioIds[i], attribute |-> None,
                 correct |-> (i # wrong)]])

\* The crop file: the same questions at level 0.5 under suffixed ids, those of
\* `right` correct.
CropFile(right) ==
  ResultFile([i \in DOMAIN ScenarioIds |->
                [original_question_id |-> ScenarioIds[i] \o CropSuffix,
                 attribute |-> Some(5), correct |-> (i \in right)]])

\* The scenario's inputs: 9 of 10 correct unperturbed, 7 of 10 correct at 0.5
\* of which 6 on questions correct unperturbed (so the question wrong
\* unperturbed is among the 7); the two files in either order.
ScenarioInputs ==
  LET pairs == UNION {{<<UnperturbedFile(wrong), CropFile(right)>> :
                         right \in {S \in SUBSET (DOMAIN ScenarioIds) :
                                      Cardinality(S) = 7 /\ wrong \in S}} :
                      wrong \in DOMAIN ScenarioIds}
  IN  pairs \cup {<<p[2], p[1]>> : p \in pairs}

\* Records of the short inputs: question 'a' unperturbed and at 0.5 with either
\* outcome, and question 'b' at 2.0 only.
ScriptRecordPool ==
  {[original_question_id |-> <<"a">>, attribute |-> None, correct |-> TRUE],
   [original_question_id |-> <<"a">>, attribute |-> None, correct |-> FALSE],
   [original_question_id |-> <<"a">> \o CropSuffix, attribute |-> Some(5), correct |-> TRUE],
   [original_question_id |-> <<"a">> \o CropSuffix, attribute |-> Some(5), correct |-> FALSE],
   [original_question_id |-> <<"b">>, attribute |-> Some(20), correct |-> TRUE]}

\* The short inputs: no file, one file or two files, MaxScriptRecords records
\* in all.
ShortInputs ==
  LET lists == SeqsUpTo(ScriptRecordPool, MaxScriptRecords)
  IN  {<<>>}
        \cup {<<ResultFile(q)>> : q \in lists}
        \cup UNION {{<<ResultFile(SubSeq(q, 1, n)), ResultFile(SubSeq(q, n + 1, Len(q)))>> :
                       n \in 0..Len(q)} : q \in lists}

\* The flat list of the records the analyzers go through, file after file.
RECURSIVE RecordsRead(_)
RecordsRead(files) ==
  IF files = <<>> THEN <<>>
  ELSE AnalyzerLoad(OpenAndLoad(Head(files)).results).records \o RecordsRead(Tail(files))

\* The keys of attribute_stats in the order of their first '+= 1' (a dict
\* keeps its keys in insertion order).
RECURSIVE InsertionOrder(_, _)
InsertionOrder(records, keys) ==
  IF records = <<>> THEN keys
  ELSE LET key == AttributeKey(Head(records))
       IN  InsertionOrder(Tail(records),
                          IF \E i \in DOMAIN keys : keys[i] = key
                          THEN keys ELSE Append(keys, key))

\* The per-level table left in the order the levels were first met.
Unsorted(keys) == keys

\* sorted(attribute_accuracy.items(), key=lambda x: float(x[0])): a stable
\* ascending sort, here on the keys of the items
RECURSIVE SortedByFloat(_)
SortedByFloat(keys) ==
  IF keys = <<>> THEN <<>>
  ELSE LET x == Head(keys)
           rest == SortedByFloat(Tail(keys))
           Below(y) == y < x
           NotBelow(y) == ~(y < x)
       IN  SelectSeq(rest, Below) \o <<x>> \o SelectSeq(rest, NotBelow)

\* The key order of sorted_attribute_accuracy: the levels with a positive total,
\* in insertion order, then sorted.
SortedAttributeAccuracy(files, stats) ==
  LET keys == InsertionOrder(RecordsRead(files), <<>>)
      Kept(k) == stats[k].total > 0
  IN  SortedByFloat(SelectSeq(keys, Kept))

\* analyze_crop_accuracy's summary: the summary analyzer's figures under the
\* crop names, the agreement analysis without base_vs_others_agreement.
CropSummary(stats, correct_all, count_all, aqr) ==
  [total_accuracy |-> OverallAccuracy(correct_all, count_all),
   total_correct |-> correct_all,
   total_count |-> count_all,
   crop_levels_count |-> Cardinality(DOMAIN AttributeAccuracy(stats)),
   crop_accuracy |-> AttributeAccuracy(stats),
   agreement_analysis |->
     [overall_agreement_rate |->
        GuardedDiv(Cardinality(FullAgreement(aqr)), Cardinality(MultiLevel(aqr))),
      questions_with_full_agreement |-> Cardinality(FullAgreement(aqr)),
      total_questions_compared |-> Cardinality(MultiLevel(aqr))]]

\* analyze_zoom_accuracy's summary: totals and the per-level table only.
ZoomSummary(stats, correct_all, count_all) ==
  [total_accuracy |-> OverallAccuracy(correct_all, count_all),
   total_correct |-> correct_all,
   total_count |-> count_all,
   zoom_levels_count |-> Cardinality(DOMAIN AttributeAccuracy(stats)),
   zoom_accuracy |-> AttributeAccuracy(stats)]

\* The state every analyzer starts its file loop from.
EmptyState ==
  [stats |-> EmptyDict, aqr |-> EmptyDict, bag |-> EmptyDict,
   correct_all |-> 0, count_all |-> 0]

\* analyze_crop_accuracy(results_files)
CropAnalyzeCall(files) ==
  LET r == ReadFiles(files, EmptyState, CropType)
  IN  IF r.raised # ""
      THEN [raised |-> r.raised, summary |-> None]
      ELSE [raised |-> "",
            summary |-> Some(CropSummary(r.st.stats, r.st.correct_all, r.st.count_all,
                                         r.st.aqr))]

\* analyze_zoom_accuracy(results_files)
ZoomAnalyzeCall(files) ==
  LET r == ReadFiles(files, EmptyState, ZoomType)
  IN  IF r.raised # ""
      THEN [raised |-> r.raised, summary |-> None]
      ELSE [raised |-> "",
            summary |-> Some(ZoomSummary(r.st.stats, r.st.correct_all, r.st.count_all))]

InitScripts ==
  /\ pc = "scripts"
  /\ attribute_type = CropType
  /\ results_files \in ScenarioInputs \cup ShortInputs
  /\ unit = 0 /\ main_all_results = EmptyDict /\ reported = <<>> /\ attempted = <<>>
  /\ analysis = None /\ weighted = None
  /\ ScriptIdle
  /\ AnalyzerIdle
  /\ StripIdle
  /\ LoaderIdle
  /\ ExtractorIdle
  /\ SimilarityIdle
  /\ AccuracyIdle
  /\ ComparisonIdle

\* analyze_contrast_accuracy(*results_files, attribute_type='crop') of the
\* summary script: the summary and the key order of its per-level table.
AnalyzeAccuracy ==
  /\ pc = "scripts"
  /\ summary = None
  /\ LET r == ReadFiles(results_files, EmptyState, attribute_type)
     IN  /\ summary' = AnalyzeCall(results_files, attribute_type).summary
         /\ sorted_attribute_accuracy' = SortedAttributeAccuracy(results_files, r.st.stats)
         /\ attribute_stats' = r.st.stats
         /\ all_question_results' = r.st.aqr
         /\ total_correct_all' = r.st.correct_all
         /\ total_count_all' = r.st.count_all
         /\ loaded' = r.st.bag
  /\ UNCHANGED <<pc, attribute_type, crop_analysis, zoom_analysis>>
  /\ UNCHANGED <<stripVars, loaderVars, evaluationVars, accuracyVars, comparisonVars>>

\* analyze_crop_accuracy(*results_files)
AnalyzeCropAccuracy ==
  /\ pc = "scripts"
  /\ crop_analysis = None
  /\ crop_analysis' = CropAnalyzeCall(results_files).summary
  /\ UNCHANGED <<pc, attribute_type, sorted_attribute_accuracy, zoom_analysis>>
  /\ UNCHANGED <<analyzerVars, stripVars, loaderVars, evaluationVars, accuracyVars,
                 comparisonVars>>

\* analyze_zoom_accuracy(*results_files)
AnalyzeZoomAccuracy ==
  /\ pc = "scripts"
  /\ zoom_analysis = None
  /\ zoom_analysis' = ZoomAnalyzeCall(results_files).summary
  /\ UNCHANGED <<pc, attribute_type, sorted_attribute_accuracy, crop_analysis>>
  /\ UNCHANGED <<analyzerVars, stripVars, loaderVars, evaluationVars, accuracyVars,
                 comparisonVars>>

NextScripts ==
  \/ AnalyzeAccuracy
  \/ AnalyzeCropAccuracy
  \/ AnalyzeZoomAccuracy

SpecScripts == InitScripts /\ [][NextScripts]_vars

\* The run is on the files of the end-to-end scenario: of all inputs only those
\* hold two records for each of the scenario's questions.
OnScenario ==
  /\ pc = "scripts"
  /\ Len(RecordsRead(results_files)) = 2 * Len(ScenarioIds)

TheCropAnalysis == CHOOSE sm \in crop_analysis : TRUE
TheZoomAnalysis == CHOOSE sm \in zoom_analysis : TRUE

\* What the scenario asks of a per-level table and of an agreement analysis.
ScenarioTable(table) ==
  /\ DOMAIN table = {5, 10}
  /\ RatEq(table[10].accuracy, Frac(9, 10))
  /\ RatEq(table[5].accuracy, Frac(7, 10))

ScenarioPair(agreement) ==
  /\ "base_vs_others_agreement" \in DOMAIN agreement
  /\ 5 \in DOMAIN agreement.base_vs_others_agreement
  /\ LET entry == agreement.base_vs_others_agreement[5]
     IN  /\ entry.questions_compared = 10
         /\ entry.questions_agreed >= 6
         /\ RatEq(entry.agreement_rate,
                  Frac(entry.questions_agreed, entry.questions_compared))

\* The summary analyzer alone, on the scenario: both tables as stated, and the
\* pair agrees on exactly the 6 questions correct at both levels.
C21_SummaryAnalyzerOnScenario ==
  (OnScenario /\ summary # None) =>
    /\ ScenarioTable(TheSummary.attribute_accuracy)
    /\ ScenarioPair(TheSummary.agreement_analysis)
    /\ TheSummary.agreement_analysis.base_vs_others_agreement[5].questions_agreed = 6

\* C21: on the end-to-end scenario (10 unperturbed records, 9 correct; the same
\* 10 questions at crop level 0.5 under '_crop_' ids, 7 correct, 6 of them on
\* questions correct unperturbed) the crop analysis, by the summary analyzer
\* and by analyze_crop_accuracy, reports accuracy 0.9 at 1.0 and 0.7 at 0.5 and
\* a pair "1.0 vs 0.5" with 10 compared, at least 6 agreed and their quotient
\* as rate.
C21_EndToEndCrop ==
  OnScenario =>
    /\ summary # None =>
         /\ ScenarioTable(TheSummary.attribute_accuracy)
         /\ ScenarioPair(TheSummary.agreement_analysis)
    /\ crop_analysis # None =>
         /\ ScenarioTable(TheCropAnalysis.crop_accuracy)
         /\ ScenarioPair(TheCropAnalysis.agreement_analysis)

(***************************************************************************)
(* The analyzer run, continued: empty inputs, pairs without a common        *)
(* question, two levels                                                     *)
(***************************************************************************)
\* C22: when the analyzer returns without having read a record (no file, or
\* files that hold no records), its summary is zero-valued: total_accuracy 0.0,
\* total_correct 0, total_count 0, an empty per-level table and
\* overall_agreement_rate 0.0.
C22_EmptyInputZeroSummary ==
  (pc = "done" /\ BagSize(loaded) = 0) =>
    /\ RatEq(TheSummary.total_accuracy, Zero)
    /\ TheSummary.total_correct = 0
    /\ TheSummary.total_count = 0
    /\ DOMAIN TheSummary.attribute_accuracy = {}
    /\ RatEq(TheSummary.agreement_analysis.overall_agreement_rate, Zero)

\* What of C22 the code does keep: without records the per-level table and the
\* pairwise entries are empty and both guarded quotients of the agreement
\* analysis are 0.0; with no file at all the totals are zero too.
C22_EmptyTablesAndGuards ==
  (pc = "done" /\ BagSize(loaded) = 0) =>
    /\ DOMAIN TheSummary.attribute_accuracy = {}
    /\ TheSummary.attribute_levels_count = 0
    /\ DOMAIN TheSummary.agreement_analysis.base_vs_others_agreement = {}
    /\ TheSummary.agreement_analysis.overall_agreement_rate = Zero
    /\ TheSummary.agreement_analysis.total_questions_compared = 0
    /\ TheSummary.total_count = 0 => TheSummary.total_accuracy = Zero

(***************************************************************************)
(* The script run, continued                                                *)
(***************************************************************************)
\* The levels of the records the scripts went through.
ScriptLevels ==
  LET records == RecordsRead(results_files)
  IN  {AttributeKey(records[i]) : i \in DOMAIN records}

\* A returned summary carries the agreement analysis in full: its three
\* unanimous figures and a pairwise entry for every non-baseline level.
CarriesAgreement(sm) ==
  /\ "agreement_analysis" \in DOMAIN sm
  /\ {"overall_agreement_rate", "questions_with_full_agreement",
      "total_questions_compared", "base_vs_others_agreement"}
       \subseteq DOMAIN sm.agreement_analysis
  /\ DOMAIN sm.agreement_analysis.base_vs_others_agreement = ScriptLevels \ {base_value}

\* The summary analyzer's part of C23.
C23_SummaryAnalyzerCarriesAgreement ==
  (pc = "scripts" /\ summary # None) => CarriesAgreement(TheSummary)

\* C23: whichever analysis returned it (the summary analyzer, the crop script,
\* the zoom script), the summary carries an agreement_analysis with
\* overall_agreement_rate, questions_with_full_agreement,
\* total_questions_compared and a base_vs_others_agreement entry for every
\* non-baseline level seen in the records.
C23_AgreementInEveryAnalysis ==
  pc = "scripts" =>
    /\ summary # None => CarriesAgreement(TheSummary)
    /\ crop_analysis # None => CarriesAgreement(TheCropAnalysis)
    /\ zoom_analysis # None => CarriesAgreement(TheZoomAnalysis)

\* The order in which the levels were first met by the loop over the records.
MetOrder == InsertionOrder(RecordsRead(results_files), <<>>)

\* C24: the per-level table of the returned summary lists its levels in
\* ascending numeric order, each level of the table once, whatever the order
\* in which the files and their records were read.
C24_LevelsAscending ==
  (pc = "scripts" /\ summary # None) =>
    /\ \A i, j \in DOMAIN sorted_attribute_accuracy :
         i < j => sorted_attribute_accuracy[i] < sorted_attribute_accuracy[j]
    /\ {sorted_attribute_accuracy[i] : i \in DOMAIN sorted_attribute_accuracy}
         = DOMAIN TheSummary.attribute_accuracy
    /\ Len(sorted_attribute_accuracy) = TheSummary.attribute_levels_count

\* C24 witness: two files, the first with the level-2.0 record and the
\* unperturbed one, the second with the level-0.5 record; the levels were met
\* in the order 2.0, 1.0, 0.5 and the table lists 0.5, 1.0, 2.0.
C24_Witness ==
  /\ pc = "scripts" /\ summary # None
  /\ Len(results_files) = 2
  /\ MetOrder = <<20, 10, 5>>
  /\ sorted_attribute_accuracy = <<5, 10, 20>>

\* The non-baseline levels read for which no base question has both a record
\* at the base value and a record at the level.
LevelsWithoutCommonQuestion ==
  {L \in LevelsSeen \ {base_value} :
     ~ \E b \in BasesSeen : RecordsAt(b, base_value) # {} /\ RecordsAt(b, L) # {}}

\* C25: a non-baseline level L read for which no base question has both a
\* level-1.0 record and a level-L record still has its "1.0 vs L" entry, with
\* questions_compared = 0, questions_agreed = 0 and agreement_rate = 0.0; and
\* in every entry questions_agreed <= questions_compared.
C25_PairWithoutCommonQuestion ==
  pc = "done" =>
    LET bvo == TheSummary.agreement_analysis.base_vs_others_agreement
    IN  /\ \A L \in LevelsWithoutCommonQuestion :
             /\ L \in DOMAIN bvo
             /\ bvo[L].questions_compared = 0
             /\ bvo[L].questions_agreed = 0
             /\ bvo[L].agreement_rate = Zero
        /\ \A L \in DOMAIN bvo : bvo[L].questions_agreed <= bvo[L].questions_compared

\* C25 witness: level 0.5 was read for one base question and the base value
\* for another only, and the summary holds the entry for 0.5 with nothing
\* compared.
C25_Witness ==
  /\ pc = "done"
  /\ 5 \in LevelsWithoutCommonQuestion
  /\ base_value \in LevelsSeen
  /\ Cardinality(BasesSeen) = 2
  /\ TheSummary.agreement_analysis.base_vs_others_agreement[5].questions_compared = 0

\* C28: when the records read carry exactly two distinct levels, 1.0 and L, the
\* unanimous statistics of the returned summary are those of the single entry
\* "1.0 vs L": total_questions_compared is its questions_compared,
\* questions_with_full_agreement its questions_agreed and
\* overall_agreement_rate its agreement_rate.
C28_TwoLevelsUnanimousIsPair ==
  (pc = "scripts" /\ summary # None) =>
    \A L \in ScriptLevels \ {base_value} :
      ScriptLevels = {base_value, L} =>
        LET agreement == TheSummary.agreement_analysis
            entry == agreement.base_vs_others_agreement[L]
        IN  /\ DOMAIN agreement.base_vs_others_agreement = {L}
            /\ agreement.total_questions_compared = entry.questions_compared
            /\ agreement.questions_with_full_agreement = entry.questions_agreed
            /\ agreement.overall_agreement_rate = entry.agreement_rate

\* C28 witness: the levels read are 1.0 and 0.5, one question has both, wrong
\* at both, and the two statistics report 1 compared, 1 agreed.
C28_Witness ==
  /\ pc = "scripts" /\ summary # None
  /\ ScriptLevels = {base_value, 5}
  /\ \A i \in DOMAIN RecordsRead(results_files) : ~RecordsRead(results_files)[i].correct
  /\ TheSummary.agreement_analysis.total_questions_compared = 1
  /\ TheSummary.agreement_analysis.questions_with_full_agreement = 1
  /\ TheSummary.agreement_analysis.base_vs_others_agreement[5].questions_agreed = 1

\* The orderings of a list; a list longer than the short inputs' is left as it is.
Orderings(q) ==
  IF Len(q) > MaxScriptRecords + 1 THEN {q}
  ELSE {[i \in DOMAIN q |-> q[p[i]]] :
          p \in {f \in [DOMAIN q -> DOMAIN q] : \A i, j \in DOMAIN q : f[i] = f[j] => i = j}}

\* A file with its records in any order.
Shuffled(file) ==
  {[file EXCEPT !.data.detailed_results = Some(q)] :
     q \in Orderings(Get(file.data.detailed_results, <<>>))}

\* The same files passed in any order, the records of each in any order.
Reorderings(files) ==
  UNION {{fs \in [DOMAIN files -> UNION {Shuffled(files[i]) : i \in DOMAIN files}] :
            \A i \in DOMAIN files : fs[i] \in Shuffled(p[i])} :
         p \in Orderings(files)}

\* Some base question was read twice at one level with different outcomes.
ConflictingRecords ==
  LET records == RecordsRead(results_files)
  IN  \E i, j \in DOMAIN records :
        /\ BaseId(records[i].original_question_id, attribute_type)
             = BaseId(records[j].original_question_id, attribute_type)
        /\ AttributeKey(records[i]) = AttributeKey(records[j])
        /\ records[i].correct # records[j].correct

\* The summary of the same call on other files.
SummaryOf(files) == CHOOSE sm \in AnalyzeCall(files, attribute_type).summary : TRUE

\* C27: the returned summary is the one any reordering of the input gives (the
\* files in another order, the records of a file in another order): the same
\* per-level table and the same agreement analysis, also when several records
\* share a base question and a level.
C27_OrderIndependent ==
  (pc = "scripts" /\ summary # None) =>
    \A files \in Reorderings(results_files) :
      /\ SummaryOf(files).attribute_accuracy = TheSummary.attribute_accuracy
      /\ SummaryOf(files).agreement_analysis = TheSummary.agreement_analysis

\* What the code does keep of C27: the totals and the per-level table never
\* depend on the order, nor does the number of questions compared; the
\* agreement counts do not either unless a base question was read twice at one
\* level with different outcomes.
C27_OrderIndependentWithoutConflicts ==
  (pc = "scripts" /\ summary # None) =>
    \A files \in Reorderings(results_files) :
      /\ SummaryOf(files).attribute_accuracy = TheSummary.attribute_accuracy
      /\ SummaryOf(files).total_correct = TheSummary.total_correct
      /\ SummaryOf(files).total_count = TheSummary.total_count
      /\ SummaryOf(files).agreement_analysis.total_questions_compared
           = TheSummary.agreement_analysis.total_questions_compared
      /\ ~ConflictingRecords => SummaryOf(files) = TheSummary

(***************************************************************************)
(* The evaluation run: evaluate_accuracy on a predictions file and a list   *)
(* of questions                                                            *)
(***************************************************************************)
\* Questions in the list handed to evaluate_accuracy, at most.
MaxQuestions == 2

DigitChars == <<"0", "1", "2", "3", "4", "5", "6", "7", "8", "9">>

\* f"{zoom}" of a float with one decimal (the level is held in tenths)
FormatZoom(zoom) ==
  <<DigitChars[(zoom \div 10) + 1], ".", DigitChars[(zoom % 10) + 1]>>

\* unique_key: f"{question_id}_zoom_{zoom}" when zoom is not None, else question_id
UniqueKey(question_id, zoom) ==
  IF zoom # None
  THEN question_id \o SplitPattern(ZoomType) \o FormatZoom(Get(zoom, 0))
  ELSE question_id

\* question_id values met in the files: a plain id and an id that carries a
\* zoom suffix itself
QuestionIds == {<<"q">>, <<"q">> \o SplitPattern(ZoomType) \o FormatZoom(5)}

ZoomValues == {None, Some(5)}

\* One line of the predictions file, parsed; the prompt names the question asked.
PredictionLines ==
  {[question_id |-> id, zoom |-> z, text |-> t, prompt |-> Some(id)] :
     id \in QuestionIds, z \in ZoomValues, t \in {<<"x">>, <<"y">>}}

\* One formatted question: options 'x' and 'y', '' for the two absent ones.
QuestionPool ==
  {[question_id |-> id, zoom |-> z, gt_answer |-> <<"x">>,
    options |-> [A |-> <<"x">>, B |-> <<"y">>, C |-> <<>>, D |-> <<>>]] :
     id \in QuestionIds, z \in ZoomValues}

\* for q in questions: ... if q_unique_key == unique_key: question_data = q; break
\* (0 when no question has the key)
RECURSIVE FirstMatch(_, _, _)
FirstMatch(qs, unique_key, i) ==
  IF i > Len(qs) THEN 0
  ELSE IF UniqueKey(qs[i].question_id, qs[i].zoom) = unique_key THEN i
  ELSE FirstMatch(qs, unique_key, i + 1)

\* eval_data of a prediction and its question
EvalData(pred, question_data) ==
  [question_id |-> UniqueKey(pred.question_id, pred.zoom),
   original_question_id |-> pred.question_id,
   zoom |-> pred.zoom,
   model_pred |-> Some(pred.text),
   gt_answer |-> question_data.gt_answer,
   option_A |-> Some(question_data.options.A),
   option_B |-> Some(question_data.options.B),
   option_C |-> Some(question_data.options.C),
   option_D |-> Some(question_data.options.D)]

\* succ/tot at the end of MedicalEval: ZeroDivisionError on an empty list
MedicalEvalAccuracy(succ_count, tot) ==
  IF tot = 0 THEN [raised |-> TRUE, value |-> Zero]
  ELSE [raised |-> FALSE, value |-> Frac(succ_count, tot)]

\* MedicalEval(pred_dict): the marks written into the list and the quotient
MedicalEval(list) ==
  LET is_correct == [i \in DOMAIN list |-> IsCorrectMark(list[i])]
      succ_count == Cardinality({i \in DOMAIN list : is_correct[i] = "yes"})
      quotient == MedicalEvalAccuracy(succ_count, Len(list))
  IN  [raised |-> quotient.raised, is_correct |-> is_correct, accuracy |-> quotient.value]

\* One entry of detailed_results (lines 267-284)
DetailedResult(d, mark, preds) ==
  [question_id |-> d.question_id,
   original_question_id |-> d.original_question_id,
   zoom |-> d.zoom,
   prompt |-> IF d.question_id \in DOMAIN preds
              THEN Get(preds[d.question_id].prompt, <<>>) ELSE <<>>,
   gt_answer |-> d.gt_answer,
   model_response |-> Get(d.model_pred, <<>>),
   correct |-> (mark = "yes")]

InitEvaluate ==
  /\ pc = "evaluate"
  /\ attribute_type = ZoomType
  /\ predictions_file \in SeqsUpTo(PredictionLines, MaxPreds)
  /\ questions \in SeqsUpTo(QuestionPool, MaxQuestions)
  /\ predictions = EmptyDict
  /\ pred_dict = <<>>
  /\ evaluation = None
  /\ ScriptIdle
  /\ ComparisonIdle
  /\ AnalyzerIdle
  /\ StripIdle
  /\ LoaderIdle
  /\ EvaluationIdle

\* Lines 215-257: one line of the predictions file is read, stored under its
\* unique key and, when a question has that key, turned into an eval_data.
ReadPrediction ==
  /\ pc = "evaluate"
  /\ predictions_file # <<>>
  /\ LET pred == Head(predictions_file)
         unique_key == UniqueKey(pred.question_id, pred.zoom)
         found == FirstMatch(questions, unique_key, 1)
     IN  /\ predictions' = DictPut(predictions, unique_key, pred)
         /\ pred_dict' = IF found # 0
                         THEN Append(pred_dict, EvalData(pred, questions[found]))
                         ELSE pred_dict
  /\ predictions_file' = Tail(predictions_file)
  /\ UNCHANGED <<pc, attribute_type, questions, evaluation>>
  /\ UNCHANGED <<analyzerVars, stripVars, loaderVars, evaluationVars, scriptVars,
                 comparisonVars>>

\* Lines 259-291: the file is exhausted; MedicalEval is called (its division
\* leaves evaluate_accuracy with the exception), then the marks are counted
\* again and the result is returned.
ReturnEvaluation ==
  /\ pc = "evaluate"
  /\ predictions_file = <<>>
  /\ LET evaluated == MedicalEval(pred_dict)
     IN  IF evaluated.raised
         THEN /\ pc' = "zero_division"
              /\ UNCHANGED evaluation
         ELSE /\ pc' = "returned"
              /\ evaluation' =
                   Some([accuracy |-> evaluated.accuracy,
                         correct |-> Cardinality({i \in DOMAIN pred_dict :
                                                    evaluated.is_correct[i] = "yes"}),
                         total |-> Len(pred_dict),
                         detailed_results |->
                           [i \in DOMAIN pred_dict |->
                              DetailedResult(pred_dict[i], evaluated.is_correct[i],
                                             predictions)]])
  /\ UNCHANGED <<attribute_type, predictions_file, questions, predictions, pred_dict>>
  /\ UNCHANGED <<analyzerVars, stripVars, loaderVars, evaluationVars, scriptVars,
                 comparisonVars>>

NextEvaluate ==
  \/ ReadPrediction
  \/ ReturnEvaluation

SpecEvaluate == InitEvaluate /\ [][NextEvaluate]_vars

TheEvaluation == CHOOSE e \in evaluation : TRUE

\* The suffix stripped from a question_id: what lies before the first, or
\* before the last, '_zoom_'.
StrippedIds(question_id) ==
  {BaseId(question_id, ZoomType), BaseIdLast(question_id, ZoomType)}

\* C26: in the detailed_results returned by evaluate_accuracy, two records
\* built from predictions with different (question_id, zoom) pairs never have
\* the same question_id, and stripping the '_zoom_' suffix from a record's
\* question_id gives its original_question_id.
C26_QuestionIdUnique ==
  pc = "returned" =>
    LET detailed_results == TheEvaluation.detailed_results
    IN  /\ \A i, j \in DOMAIN detailed_results :
             <<detailed_results[i].original_question_id, detailed_results[i].zoom>>
               # <<detailed_results[j].original_question_id, detailed_results[j].zoom>>
             => detailed_results[i].question_id # detailed_results[j].question_id
        /\ \A i \in DOMAIN detailed_results :
             detailed_results[i].original_question_id
               \in StrippedIds(detailed_results[i].question_id)

\* What the code does keep of C26: among predictions whose own question_id
\* carries no '_zoom_', different (question_id, zoom) pairs give different
\* question_ids and stripping gives back the original id.
C26_UniqueForPlainIds ==
  pc = "returned" =>
    LET detailed_results == TheEvaluation.detailed_results
        plain == {i \in DOMAIN detailed_results :
                    ~Contains(detailed_results[i].original_question_id,
                              SplitPattern(ZoomType))}
    IN  /\ \A i, j \in plain :
             <<detailed_results[i].original_question_id, detailed_results[i].zoom>>
               # <<detailed_results[j].original_question_id, detailed_results[j].zoom>>
             => detailed_results[i].question_id # detailed_results[j].question_id
        /\ \A i \in plain :
             BaseId(detailed_results[i].question_id, ZoomType)
               = detailed_results[i].original_question_id

\* evaluate_accuracy has left its loop over the file, by return or by exception.
EvaluationOver == pc \in {"returned", "zero_division"}

\* C29: when no eval_data was built (the predictions file is empty, or none of
\* its lines has the key of a question) evaluate_accuracy returns a result
\* with total = 0, correct = 0 and accuracy 0 instead of failing with a
\* division error; and every returned result has correct <= total and
\* accuracy = correct / total.
C29_EmptyEvaluationReturnsZeros ==
  /\ (EvaluationOver /\ pred_dict = <<>>) =>
       /\ pc = "returned"
       /\ evaluation # None
       /\ TheEvaluation.total = 0
       /\ TheEvaluation.correct = 0
       /\ RatEq(TheEvaluation.accuracy, Zero)
  /\ pc = "returned" =>
       /\ TheEvaluation.correct <= TheEvaluation.total
       /\ TheEvaluation.total > 0 =>
            RatEq(TheEvaluation.accuracy,
                  Frac(TheEvaluation.correct, TheEvaluation.total))

\* What the code does keep of C29: a result is returned exactly when some
\* eval_data was built, and then total is their number, correct the number of
\* 'yes' marks, at most total, and accuracy their quotient.
C29_ReturnedResultConsistent ==
  /\ EvaluationOver => (pc = "returned" <=> pred_dict # <<>>)
  /\ pc = "returned" =>
       /\ TheEvaluation.total = Len(pred_dict)
       /\ TheEvaluation.total = Len(TheEvaluation.detailed_results)
       /\ TheEvaluation.correct
            = Cardinality({i \in DOMAIN TheEvaluation.detailed_results :
                             TheEvaluation.detailed_results[i].correct})
       /\ TheEvaluation.correct <= TheEvaluation.total
       /\ RatEq(TheEvaluation.accuracy, Frac(TheEvaluation.correct, TheEvaluation.total))

(***************************************************************************)
(* The comparison run: detailed_crop_comparison.py from its two flat lists  *)
(* to the prompt of each reported question                                  *)
(***************************************************************************)
\* Records in each of the two lists, at most.
MaxCompareRecords == 2

\* A base question asked again at crop level 50.
CroppedId == <<"a">> \o SplitPattern(CropType) \o <<"5", "0">>

\* detailed_results of the crop file: a suffixed id and a plain one, 'crop'
\* possibly missing.
File1RecordPool ==
  [original_question_id : {CroppedId, <<"b">>},
   crop : {None, Some(50)},
   correct : BOOLEAN,
   prompt : {<<"1">>}]

\* detailed_results of the no-crop file: no 'crop' key; one id carries a crop
\* suffix all the same.
File2RecordPool ==
  [original_question_id : {<<"a">>, <<"b">>, CroppedId},
   crop : {None},
   correct : BOOLEAN,
   prompt : {<<"2">>}]

\* r.get('crop', 100)
CropOf(r) == Get(r.crop, 100)

\* r_copy: the record with 'crop' set to 100 when it has none
WithCrop(r) == [r EXCEPT !.crop = Some(CropOf(r))]

\* orig_id.split('_crop_')[0]
File1BaseId(r) == SplitFirst(r.original_question_id, SplitPattern(CropType))

\* file1_by_crop: crop level -> base id -> record, later records overwriting
RECURSIVE File1ByCrop(_, _)
File1ByCrop(records, by_crop) ==
  IF records = <<>> THEN by_crop
  ELSE LET r == Head(records)
           crop == CropOf(r)
           old == IF crop \in DOMAIN by_crop THEN by_crop[crop] ELSE EmptyDict
       IN  File1ByCrop(Tail(records), DictPut(by_crop, crop, DictPut(old, File1BaseId(r), r)))

\* file2_by_orig: original_question_id as it is -> record copy
RECURSIVE File2ByOrig(_, _)
File2ByOrig(records, by_orig) ==
  IF records = <<>> THEN by_orig
  ELSE File2ByOrig(Tail(records),
                   DictPut(by_orig, Head(records).original_question_id,
                           WithCrop(Head(records))))

\* The comparison made also for a base id the no-crop file does not have.
DiffersOrAbsent(by_crop, by_orig, crop_level, base_id) ==
  \/ base_id \notin DOMAIN by_orig
  \/ by_crop[crop_level][base_id].correct # by_orig[base_id].correct

\* if base_id in file2_by_orig: ... if crop_correct != no_crop_correct
Differs(by_crop, by_orig, crop_level, base_id) ==
  /\ base_id \in DOMAIN by_orig
  /\ by_crop[crop_level][base_id].correct # by_orig[base_id].correct

\* questions_with_differences after the two nested loops
QuestionsWithDifferences(by_crop, by_orig) ==
  UNION {{base_id \in DOMAIN by_crop[crop_level] :
            Differs(by_crop, by_orig, crop_level, base_id)} :
         crop_level \in DOMAIN by_crop}

\* Code points of the characters of the ids, for sorted()
CharRank(ch) ==
  CASE ch = "0" -> 48 [] ch = "5" -> 53 [] ch = "_" -> 95 [] ch = "a" -> 97
    [] ch = "b" -> 98 [] ch = "c" -> 99 [] ch = "o" -> 111 [] ch = "p" -> 112
    [] ch = "r" -> 114

\* s < t as Python compares strings
RECURSIVE StrLess(_, _)
StrLess(s, t) ==
  IF t = <<>> THEN FALSE
  ELSE IF s = <<>> THEN TRUE
  ELSE IF Head(s) = Head(t) THEN StrLess(Tail(s), Tail(t))
  ELSE CharRank(Head(s)) < CharRank(Head(t))

InitCompare ==
  /\ pc = "differences"
  /\ attribute_type = CropType
  /\ file1_results \in SeqsUpTo(File1RecordPool, MaxCompareRecords)
  /\ file2_results \in SeqsUpTo(File2RecordPool, MaxCompareRecords)
  /\ questions_with_differences = {}
  /\ sample_result = EmptyDict
  /\ results = None /\ all_results = None
  /\ ScriptIdle
  /\ AccuracyIdle
  /\ AnalyzerIdle
  /\ StripIdle
  /\ EvaluationIdle

\* Lines 31-76: the lookups are built and the base ids whose correctness
\* differs between some crop level and no crop are collected.
FindDifferences ==
  /\ pc = "differences"
  /\ questions_with_differences' =
       QuestionsWithDifferences(File1ByCrop(file1_results, EmptyDict),
                                File2ByOrig(file2_results, EmptyDict))
  /\ pc' = "report"
  /\ UNCHANGED <<attribute_type, file2_results, sample_result>>
  /\ UNCHANGED <<analyzerVars, stripVars, loaderVars, evaluationVars, scriptVars,
                 accuracyVars>>

\* Lines 82-99: the next base id of sorted(questions_with_differences); its
\* prompt comes from file2_by_orig, or else the loop over file2_by_crop, a
\* name the script never binds, raises NameError.
ReportQuestion ==
  /\ pc = "report"
  /\ \E base_id \in questions_with_differences \ DOMAIN sample_result :
       /\ \A other \in questions_with_differences \ DOMAIN sample_result :
            ~StrLess(other, base_id)
       /\ LET file2_by_orig == File2ByOrig(file2_results, EmptyDict)
          IN  IF base_id \in DOMAIN file2_by_orig
              THEN /\ sample_result' = DictPut(sample_result, base_id, file2_by_orig[base_id])
                   /\ pc' = pc
              ELSE /\ pc' = "name_error"
                   /\ UNCHANGED sample_result
  /\ UNCHANGED <<attribute_type, file2_results, questions_with_differences>>
  /\ UNCHANGED <<analyzerVars, stripVars, loaderVars, evaluationVars, scriptVars,
                 accuracyVars>>

NextCompare ==
  \/ FindDifferences
  \/ ReportQuestion

SpecCompare == InitCompare /\ [][NextCompare]_vars

\* The no-crop lookup of the run.
TheFile2ByOrig == File2ByOrig(file2_results, EmptyDict)

\* C30: every base id in questions_with_differences has a no-crop record in
\* file2_by_orig; the report loop takes each prompt from that record and never
\* reaches the fallback branch over file2_by_crop.
C30_FallbackNeverReached ==
  /\ questions_with_differences \subseteq DOMAIN TheFile2ByOrig
  /\ pc # "name_error"
  /\ \A base_id \in DOMAIN sample_result :
       /\ base_id \in questions_with_differences
       /\ sample_result[base_id] = TheFile2ByOrig[base_id]
       /\ sample_result[base_id].prompt = <<"2">>

\* C30 witness: the crop file has a record for a base id the no-crop file
\* lacks and both files differ on another; that one was reported with the
\* no-crop record's prompt and nothing is left to report.
C30_Witness ==
  /\ pc = "report"
  /\ \E i \in DOMAIN file1_results : File1BaseId(file1_results[i]) \notin DOMAIN TheFile2ByOrig
  /\ questions_with_differences # {}
  /\ DOMAIN sample_result = questions_with_differences

====
